---- MODULE Spec2Model ----
(***************************************************************************)
(* hots.dog: the two-tier response cache of main.go (wrap, CheckCache,      *)
(* WriteCache, the memory-cache sweep of main) and the revalidation job of  *)
(* cron.go, as a state machine.                                             *)
(*                                                                          *)
(* Time is counted in hours: cacheTime (time.Hour) is 1, the sweep's cutoff *)
(* (time.Hour) is 1.  A request is one run of the closure wrap returns; the *)
(* goroutine it may start (go h.WriteCache, or the last_hit update of       *)
(* CheckCache) is tracked in the same record.  A database statement that    *)
(* returns an error has changed nothing.                                    *)
(***************************************************************************)
EXTENDS Integers, Sequences, FiniteSets, TLC

\* ------------------------------------------------------------------ bounds
MaxReq == 2        \* requests of one behaviour
MaxTime == 1       \* no tick from this hour on
MaxResult == 2     \* distinct answers a handler can compute
MaxSnapshots == 3  \* no refresh is started once this many snapshots were built
MaxIds == 2001     \* game ids of one team in GetCompareHero

\* ------------------------------------------------------- program constants
cacheTime == 1     \* h.cacheTime = time.Hour
sweepAge == 1      \* time.Now().Add(-time.Hour)
staleAge == 48     \* now() - '48h'::interval
retryLimit == 10   \* for count := 0; count < 10; count++
chunkLimit == 1000 \* limit := 1000

Reqs == 1..MaxReq
Results == 1..MaxResult

\* The routes of main: two of the four DB-cached ones, the memory-cached one
\* and one with no cache.  The cache key (r.URL.String()) is the path with
\* its canonical query; one query per path is modelled, so key = path.
Paths == {"/api/get-winrates", "/api/get-hero-data", "/api/init", "/api/get-game-data"}

enableDBCache_WithInit(path) == path \in {"/api/get-build-winrates", "/api/get-compare-hero",
                                          "/api/get-hero-data", "/api/get-winrates",
                                          "/api/init"}
enableDBCache(path) == path \in {"/api/get-build-winrates", "/api/get-compare-hero",
                                 "/api/get-hero-data", "/api/get-winrates"}

enableMemCache(path) == path = "/api/init"

VARIABLES
    now,          \* wall clock, in hours
    enableCache,  \* !*flagInit
    memCache,     \* h.mu.cache: url -> [until, data, gzip]
    dbCache,      \* table cache: id -> [data, gzip, last_hit, until]
    req,          \* request -> its locals and its position in wrap
    cronPc,       \* cron: "idle", "select" or "loop"
    cronUrls      \* cron: the urls still to recompute

cacheVars == <<now, enableCache, memCache, dbCache, req, cronPc, cronUrls>>

\* One call of retry (main.go:623), made directly with a statement or by txn.
VARIABLES
    rtCaller,     \* who called retry: "none", "exec" (a statement) or "txn"
    rtPc,         \* place in retry: "idle", "test", "fn", "check" or "done"
    rtCount,      \* retry's count
    rtErr,        \* retry's err: what the last call of fn returned
    rtRet,        \* what retry returned
    rtHist,       \* what the calls of fn returned so far, in order
    txPc,         \* place in txn's closure: "begin", "fn", "commit" or "rollback"
    txFnErr,      \* the closure's err after fn(txn)
    txState,      \* the attempt's transaction: "none", "open", "committed", "aborted", "rolledback"
    txOpen        \* transactions of the call begun and neither committed nor rolled back

retryVars == <<rtCaller, rtPc, rtCount, rtErr, rtRet, rtHist, txPc, txFnErr, txState, txOpen>>

\* The lock h.mu with what it guards beside the cache map, and the goroutines
\* that take it.
VARIABLES
    mu,           \* h.mu (sync.RWMutex): [w: the writer or "none", r: the readers]
    muInit,       \* h.mu.init: the place in heap of the current snapshot's contents
    heap,         \* the contents (Maps, Builds, lookups, config) of the snapshots built
    config,       \* the row of table config that updateInit reads
    th            \* goroutine -> its locals and its position

lockVars == <<mu, muInit, heap, config, th>>

\* The aggregate handlers: one call of getBuildWinrates, getWinrates or
\* GetCompareHero with its re-run; one request with its errgroup; one getGames
\* call of GetCompareHero.
VARIABLES
    agg,          \* the call: its arguments, snapshot, queries, rows and results
    grp,          \* the request: its sub-queries, the group's error, the response
    chunk         \* getGames: ids left, queries sent, the result

queryVars == <<agg, grp, chunk>>

vars == <<cacheVars, retryVars, lockVars, queryVars>>

\* ------------------------------------------------------------ pure helpers

\* json.Marshal of a result, and its gzip copy (resultToBytes).
Marshal(res) == <<"json", res>>
Gzip(data) == <<"gzip", data[2]>>
Gunzip(gz) == <<"json", gz[2]>>

\* resultToBytes without gzw.Close(): the stream is cut short.
resultToBytes_Unclosed(res) == [data |-> Marshal(res), gzip |-> <<"gzip", 0>>]
resultToBytes(res) == [data |-> Marshal(res), gzip |-> Gzip(Marshal(res))]

NoData == <<"none", 0>>

\* What a request has been answered: code 0 stands for nothing written yet, and
\* a 200 answer records the two copies handed to writeDataGzip.
NoResp == [code |-> 0, data |-> NoData, gzip |-> NoData]
okResp(data, gzip) == [code |-> 200, data |-> data, gzip |-> gzip]

\* http.Error(w, err.Error(), http.StatusInternalServerError)
httpError == [code |-> 500, data |-> NoData, gzip |-> NoData]

\* The body writeDataGzip sends for an answer: the gzip copy iff the request's
\* Accept-Encoding contains gzip.
writeDataGzip(acceptGzip, resp) ==
    [encoding |-> IF acceptGzip THEN "gzip" ELSE "identity",
     body |-> IF acceptGzip THEN resp.gzip ELSE resp.data]

\* SQL timestamps: NULL or a time.
Null == [null |-> TRUE, t |-> 0]
At(t) == [null |-> FALSE, t |-> t]

\* retry(fn): fn's attempts are given as the sequence of their outcomes
\* ("ok", "retryable", "fatal"); the result is what retry returns and how
\* many times fn ran.
RECURSIVE retryFrom(_, _)
retryFrom(outs, count) ==
    IF count >= retryLimit \/ count >= Len(outs)
    THEN [err |-> "retry limit exhausted", calls |-> count]
    ELSE IF outs[count + 1] = "ok" THEN [err |-> "nil", calls |-> count + 1]
    ELSE IF outs[count + 1] = "retryable" THEN retryFrom(outs, count + 1)
    ELSE [err |-> "fatal", calls |-> count + 1]

retry(outs) == retryFrom(outs, 0)

\* The attempt sequences a statement can meet: k retryable failures, then
\* success, a non-retryable failure, or retryable failures to the limit.
Attempts ==
    { [i \in 1..(k + 1) |-> IF i <= k THEN "retryable" ELSE last] :
        k \in {0, 1, retryLimit - 1}, last \in {"ok", "fatal"} }
    \cup { [i \in 1..retryLimit |-> "retryable"] }

\* Go errors: nil, a *pq.Error with its code, or another error; msg is the text
\* of Error() in phrases, wraps says the value is an errors.Wrap of its cause.
Nil == [isNil |-> TRUE, pq |-> FALSE, code |-> "", msg |-> <<>>, wraps |-> FALSE]
PqError(code) ==
    [isNil |-> FALSE, pq |-> TRUE, code |-> code, msg |-> <<"pq", code>>, wraps |-> FALSE]
NetError(msg) == [isNil |-> FALSE, pq |-> FALSE, code |-> "", msg |-> msg, wraps |-> FALSE]
Wrap(e) == [e EXCEPT !.wraps = TRUE, !.msg = <<"wrapped">> \o e.msg]

\* errors.Cause(err)
Cause(e) == IF e.wraps THEN [e EXCEPT !.wraps = FALSE, !.msg = Tail(e.msg)] ELSE e

\* strings.Contains(err.Error(), phrase)
Contains(msg, phrase) == \E i \in 1..Len(msg) : msg[i] = phrase

\* errors.New("retry limit exhausted")
ErrRetryLimit == NetError(<<"retry limit exhausted">>)

\* What a database call can return: nil, a serialization failure (wrapped by
\* its caller), a reset connection, a constraint violation, an expired deadline
\* and the error of a retry made inside the call.
ErrSerialization == Wrap(PqError("40001"))
ErrReset == NetError(<<"read tcp", "connection reset by peer">>)
ErrConstraint == PqError("23505")
ErrDeadline == Wrap(NetError(<<"context deadline exceeded">>))
FnErrors == {ErrSerialization, ErrReset, ErrConstraint, ErrDeadline, ErrRetryLimit}
FnOutcomes == {Nil} \cup FnErrors

\* retryable(err)
retryable_AnyPq(e) ==
    \/ Cause(e).pq
    \/ Contains(Cause(e).msg, "connection reset by peer")
retryable(e) ==
    \/ Cause(e).pq /\ Cause(e).code = "40001"
    \/ Contains(Cause(e).msg, "connection reset by peer")

\* No call of retry is being followed.
NoRetryCall ==
    /\ rtCaller = "none"
    /\ rtPc = "idle"
    /\ rtCount = 0
    /\ rtErr = Nil
    /\ rtRet = Nil
    /\ rtHist = <<>>
    /\ txPc = "begin"
    /\ txFnErr = Nil
    /\ txState = "none"
    /\ txOpen = 0

\* ----------------------------------------------------------------- state

\* CheckCache's test of a memory entry: c.until > start.Unix()
notExpired_GE(until, start) == until >= start
notExpired(until, start) == until > start

\* cache{until: start.Add(h.cacheTime).Unix(), data: data, gzip: gzip}
cacheEntry_NoTTL(start, data, gzip) == [until |-> start, data |-> data, gzip |-> gzip]
cacheEntry(start, data, gzip) == [until |-> start + cacheTime, data |-> data, gzip |-> gzip]

\* h.mu.cache[url] = c
MemPut(m, url, c) == [u \in DOMAIN m \cup {url} |-> IF u = url THEN c ELSE m[u]]

\* SELECT data, gzip FROM cache WHERE id = $1: the rows found.
SelectRow_Revalidated(tbl, id) == {u \in DOMAIN tbl : u = id /\ ~tbl[u].until.null}
SelectRow(tbl, id) == {u \in DOMAIN tbl : u = id}

\* UPSERT INTO cache (id, data, gzip, last_hit, until) VALUES ($1, $2, $3, $4, NULL)
Upsert_InsertOnly(tbl, id, data, gzip, start) ==
    [u \in DOMAIN tbl \cup {id} |->
        IF u = id /\ u \notin DOMAIN tbl
        THEN [data |-> data, gzip |-> gzip, last_hit |-> At(start), until |-> Null]
        ELSE tbl[u]]
Upsert_KeepsUntil(tbl, id, data, gzip, start) ==
    [u \in DOMAIN tbl \cup {id} |->
        IF u = id
        THEN [data |-> data, gzip |-> gzip, last_hit |-> At(start),
              until |-> IF u \in DOMAIN tbl THEN tbl[u].until ELSE Null]
        ELSE tbl[u]]
Upsert(tbl, id, data, gzip, start) ==
    [u \in DOMAIN tbl \cup {id} |->
        IF u = id
        THEN [data |-> data, gzip |-> gzip, last_hit |-> At(start), until |-> Null]
        ELSE tbl[u]]

\* UPDATE cache SET last_hit = $1 WHERE id = $2
UpdateLastHit(tbl, id, start) ==
    [u \in DOMAIN tbl |-> IF u = id THEN [tbl[u] EXCEPT !.last_hit = At(start)] ELSE tbl[u]]

\* UPDATE cache SET data = $1, gzip = $2, until = now() WHERE id = $3
UpdateRecached_TouchesHit(tbl, id, data, gzip, t) ==
    [u \in DOMAIN tbl |->
        IF u = id
        THEN [data |-> data, gzip |-> gzip, until |-> At(t), last_hit |-> At(t)]
        ELSE tbl[u]]
UpdateRecached_NoWhere(tbl, id, data, gzip, t) ==
    [u \in DOMAIN tbl |-> [tbl[u] EXCEPT !.data = data, !.gzip = gzip, !.until = At(t)]]
UpdateRecached(tbl, id, data, gzip, t) ==
    [u \in DOMAIN tbl |->
        IF u = id THEN [tbl[u] EXCEPT !.data = data, !.gzip = gzip, !.until = At(t)]
        ELSE tbl[u]]

\* DELETE FROM cache WHERE last_hit < (now() - '48h'::interval)
DeleteStale(tbl, t) ==
    [u \in {x \in DOMAIN tbl : ~(~tbl[x].last_hit.null /\ tbl[x].last_hit.t < t - staleAge)}
        |-> tbl[u]]

\* DELETE FROM cache
DeleteAll_None(tbl) == tbl
DeleteAll(tbl) == [u \in {} |-> tbl[u]]

\* SELECT id FROM cache WHERE until < now() OR until IS NULL
SelectExpired(tbl, t) ==
    {u \in DOMAIN tbl : tbl[u].until.null \/ tbl[u].until.t < t}

\* The sweep of main's ticker goroutine: delete entries with until < cutoff.
SweepMap_Ahead(m, t) ==
    [u \in {x \in DOMAIN m : ~(m[x].until < t + sweepAge)} |-> m[u]]
SweepMap(m, t) ==
    [u \in {x \in DOMAIN m : ~(m[x].until < t - sweepAge)} |-> m[u]]

\* The request's ctx (context.WithTimeout(context.Background(), 60 s) with
\* defer cancel()) is done once wrap has returned or the deadline has passed,
\* which it has when the clock shows a later hour than start.
ctxDone(rec, t) == rec.pc = "done" \/ t > rec.start

\* retry(func() error { _, err := h.db.Exec(...); return err }) in WriteCache
\* and in CheckCache's goroutine: Exec, not ExecContext, so the statement is
\* sent whatever the state of the request's ctx.
dbExec_WithContext(done, outs) ==
    IF done THEN [err |-> "context canceled", calls |-> 0] ELSE retry(outs)
dbExec(done, outs) == retry(outs)

\* A request's record.  pc is its place in wrap/CheckCache; gpc the place of the
\* goroutine it started ("none": none started); scanErr the error of CheckCache's
\* Scan ("none": no query made); gerr what the goroutine's retry returned.
IdleReq ==
    [pc |-> "idle", path |-> "/api/init", start |-> 0,
     resp |-> NoResp, served |-> "none", memRead |-> FALSE, scanErr |-> "none",
     called |-> FALSE, data |-> NoData, gzip |-> NoData, gpc |-> "none", gerr |-> "none"]

\* The cache key of a request: r.URL.String().
Url(r) == req[r].path

\* The orders in which a query without ORDER BY can return a set of ids, or
\* range go through the keys of a map.
RECURSIVE Orders(_)
Orders(S) ==
    IF S = {} THEN {<<>>}
    ELSE UNION { { <<u>> \o rest : rest \in Orders(S \ {u}) } : u \in S }

\* ------------------------------------------- the lock, the config snapshot

\* Go strings that the program compares are sequences of bytes; a < b on strings
\* is the order byte by byte, a prefix before what it is a prefix of.
RECURSIVE StrLess(_, _)
StrLess(a, b) ==
    IF a = <<>> THEN b # <<>>
    ELSE IF b = <<>> THEN FALSE
    ELSE IF a[1] # b[1] THEN a[1] < b[1]
    ELSE StrLess(Tail(a), Tail(b))

\* The build ids "9", "10", "11" and one the config never has, "12"; the map
\* names "a", "b".
Build9 == <<57>>
Build10 == <<49, 48>>
Build11 == <<49, 49>>
Build12 == <<49, 50>>
BuildIDs == {Build9, Build10, Build11, Build12}
MapA == <<97>>
MapB == <<98>>

\* groupConfig as json.Unmarshal gives it: Builds (id -> time window) and Map
\* (group -> name -> code).  Two contents of the config row: before and after a
\* build and a map are added.
ConfigOld ==
    [Builds |-> (Build9 :> [Start |-> 1, End |-> 2]) @@ (Build10 :> [Start |-> 2, End |-> 3]),
     Map |-> [map |-> (MapB :> "1")]]
ConfigNew ==
    [Builds |-> (Build9 :> [Start |-> 1, End |-> 2]) @@ (Build10 :> [Start |-> 2, End |-> 3])
                    @@ (Build11 :> [Start |-> 3, End |-> 4]),
     Map |-> [map |-> (MapB :> "1") @@ (MapA :> "2")]]
Configs == {ConfigOld, ConfigNew}

\* sort.Strings(a): a sorted in increasing order (by insertion; the result does
\* not depend on the algorithm when no two elements are equal).
RECURSIVE insertString(_, _)
insertString(x, sorted) ==
    IF sorted = <<>> THEN <<x>>
    ELSE IF StrLess(x, Head(sorted)) THEN <<x>> \o sorted
    ELSE <<Head(sorted)>> \o insertString(x, Tail(sorted))

RECURSIVE sortStrings(_)
sortStrings(a) ==
    IF a = <<>> THEN <<>> ELSE insertString(Head(a), sortStrings(Tail(a)))

\* func(i, j int) bool { return Builds[i].ID > Builds[j].ID }
buildLess_Ascending(a, b) == StrLess(a.ID, b.ID)
buildLess(a, b) == StrLess(b.ID, a.ID)

\* sort.Slice(builds, less), by insertion.
RECURSIVE insertBuild(_, _)
insertBuild(x, sorted) ==
    IF sorted = <<>> THEN <<x>>
    ELSE IF buildLess(x, Head(sorted)) THEN <<x>> \o sorted
    ELSE <<Head(sorted)>> \o insertBuild(x, Tail(sorted))

RECURSIVE sortSlice(_)
sortSlice(builds) ==
    IF builds = <<>> THEN <<>> ELSE insertBuild(Head(builds), sortSlice(Tail(builds)))

\* initData{Modes: ..., config: &c, lookups: make(...)}: Maps and Builds are nil.
newInitData(c) == [Maps |-> <<>>, Builds |-> <<>>, lookups |-> <<>>, config |-> c]

\* for m := range c.Map["map"] { append }; sort.Strings(Maps): order is the order
\* in which range went through the map.
withMaps(d, order) == [d EXCEPT !.Maps = sortStrings(@ \o order)]

\* for n, b := range c.Builds { append(Build{ID: n, Start: b.Start, Finish: b.End}) }
withBuilds(d, c, order) ==
    [d EXCEPT !.Builds = @ \o [i \in 1..Len(order) |->
        [ID |-> order[i], Start |-> c.Builds[order[i]].Start,
         Finish |-> c.Builds[order[i]].End]]]

\* sort.Slice(h.mu.init.Builds, ...)
sortBuilds(d) == [d EXCEPT !.Builds = sortSlice(d.Builds)]

\* for group, m := range c.Map { lookups[group] = the map from code to name }
withLookups_SameName(d, c) ==
    [d EXCEPT !.lookups = [g \in DOMAIN c.Map \cup DOMAIN @ |->
        IF g \in DOMAIN c.Map
        THEN [code \in {c.Map[g][n] : n \in DOMAIN c.Map[g]} |->
                CHOOSE n \in DOMAIN c.Map[g] : TRUE]
        ELSE @[g]]]
withLookups(d, c) ==
    [d EXCEPT !.lookups = [g \in DOMAIN c.Map \cup DOMAIN @ |->
        IF g \in DOMAIN c.Map
        THEN [code \in {c.Map[g][n] : n \in DOMAIN c.Map[g]} |->
                CHOOSE n \in DOMAIN c.Map[g] : c.Map[g][n] = code]
        ELSE @[g]]]

\* getBuildBefore(init, id): one turn of the loop over init.Builds, at index i
\* (from 1); past the end, return "", false.
buildBeforeStep_Newer(builds, id, i) ==
    IF i > Len(builds) THEN [pc |-> "query", i |-> i, prev |-> [build |-> <<>>, ok |-> FALSE]]
    ELSE IF builds[i].ID = id
    THEN IF i = 1
         THEN [pc |-> "query", i |-> i, prev |-> [build |-> <<>>, ok |-> FALSE]]
         ELSE [pc |-> "query", i |-> i, prev |-> [build |-> builds[i - 1].ID, ok |-> TRUE]]
    ELSE [pc |-> "gb_loop", i |-> i + 1, prev |-> [build |-> <<>>, ok |-> FALSE]]
buildBeforeStep(builds, id, i) ==
    IF i > Len(builds) THEN [pc |-> "query", i |-> i, prev |-> [build |-> <<>>, ok |-> FALSE]]
    ELSE IF builds[i].ID = id
    THEN IF Len(builds) = i
         THEN [pc |-> "query", i |-> i, prev |-> [build |-> <<>>, ok |-> FALSE]]
         ELSE [pc |-> "query", i |-> i, prev |-> [build |-> builds[i + 1].ID, ok |-> TRUE]]
    ELSE [pc |-> "gb_loop", i |-> i + 1, prev |-> [build |-> <<>>, ok |-> FALSE]]

\* The snapshot updateInit builds from config c when range goes through c's
\* maps in order mo and through its builds in order bo.
buildInit(c, mo, bo) == withLookups(sortBuilds(withBuilds(withMaps(newInitData(c), mo), c, bo)), c)

\* h.mu.Lock() can proceed: no writer and no reader.  h.mu.RLock(): no writer.
CanLock_Shared(m) == TRUE
CanLock(m) == m.w = "none" /\ m.r = {}
CanRLock_Always(m) == TRUE
CanRLock(m) == m.w = "none"

Locked(m, t) == [m EXCEPT !.w = t]
Unlocked_Kept(m, t) == m
Unlocked(m, t) == [m EXCEPT !.w = IF m.w = t THEN "none" ELSE m.w]
RLocked(m, t) == [m EXCEPT !.r = m.r \cup {t}]
RUnlocked(m, t) == [m EXCEPT !.r = m.r \ {t}]

\* The goroutines: two requests (each with the goroutine wrap or CheckCache
\* starts for it) for one key of /api/get-winrates, a request for
\* /api/clear-cache, and main's ticker goroutine.
Workers == {"w1", "w2"}
Goroutines == Workers \cup {"clear", "loop"}
WorkerUrl == "/api/get-winrates"

\* What worker t's handler computes.
resultOf(t) == IF t = "w1" THEN 1 ELSE 2

NoConfig == [Builds |-> <<>>, Map |-> <<>>]
NoInit == newInitData(NoConfig)
NoPrev == [build |-> <<>>, ok |-> FALSE]

\* A goroutine's record: pc its position; start, data, gzip, resp as in wrap;
\* init the snapshot getInit returned (a place in heap) and seen its contents
\* at that moment; id, i, prev the argument, index and result of getBuildBefore; blob the
\* config updateInit has read; err the error it ended with.
IdleTh ==
    [pc |-> "idle", start |-> 0, data |-> NoData, gzip |-> NoData, resp |-> NoResp,
     init |-> 0, seen |-> NoInit, id |-> <<>>, i |-> 0, prev |-> NoPrev,
     blob |-> NoConfig, err |-> "none"]

\* No aggregate handler is running.
NoAgg == [pc |-> "idle"]
NoGrp == [pc |-> "idle"]
NoChunk == [pc |-> "idle"]
QueryIdle == agg = NoAgg /\ grp = NoGrp /\ chunk = NoChunk

\* No goroutine of this part is running and nothing was built.
LockIdle ==
    /\ mu = [w |-> "none", r |-> {}]
    /\ muInit = 0
    /\ heap = <<>>
    /\ config = ConfigOld
    /\ th = [t \in Goroutines |-> IdleTh]

\* The process after main's first updateInit (main.go:178), before it serves:
\* with the cache enabled or, under -init, disabled; under -init the table may
\* hold a row of an earlier run.
LockInit ==
    /\ now = 0
    /\ enableCache \in BOOLEAN
    /\ memCache = <<>>
    /\ dbCache \in {<<>>} \cup
            IF enableCache THEN {}
            ELSE {Upsert(<<>>, WorkerUrl, resultToBytes(1).data, resultToBytes(1).gzip, 0)}
    /\ req = [r \in Reqs |-> IdleReq]
    /\ cronPc = "idle"
    /\ cronUrls = <<>>
    /\ NoRetryCall
    /\ QueryIdle
    /\ mu = [w |-> "none", r |-> {}]
    /\ muInit = 1
    /\ config = ConfigOld
    /\ \E mo \in Orders(DOMAIN ConfigOld.Map["map"]), bo \in Orders(DOMAIN ConfigOld.Builds) :
            heap = <<buildInit(ConfigOld, mo, bo)>>
    /\ th = [t \in Goroutines |-> IdleTh]

\* main's ticker goroutine panics when updateInit fails: the process is gone.
Alive == th["loop"].pc # "panic"

\* One field of h.mu.cache[url] = cache{...} reaching the map.
MemPutField(m, url, f, v) ==
    LET old == IF url \in DOMAIN m THEN m[url]
               ELSE [until |-> 0, data |-> NoData, gzip |-> NoData]
    IN MemPut(m, url, [old EXCEPT ![f] = v])

Init ==
    /\ now = 0
    /\ enableCache \in BOOLEAN
    /\ memCache = <<>>
    /\ dbCache = <<>>
    /\ req = [r \in Reqs |-> IdleReq]
    /\ cronPc = "idle"
    /\ cronUrls = <<>>
    /\ NoRetryCall
    /\ QueryIdle
    /\ LockIdle

\* ---------------------------------------------------------------- wrap

\* A request arrives: start := time.Now(); CheckCache is called iff enableCache.
\* (Requests take the lowest free record.)
Arrive(r) ==
    /\ req[r].pc = "idle"
    /\ \A q \in 1..(r - 1) : req[q].pc # "idle"
    /\ \E p \in Paths :
        req' = [req EXCEPT ![r] = [@ EXCEPT !.path = p, !.start = now,
                                            !.pc = IF enableCache THEN "check" ELSE "handler"]]
    /\ UNCHANGED <<now, enableCache, memCache, dbCache, cronPc, cronUrls>>
    /\ UNCHANGED <<retryVars, lockVars, queryVars>>

\* CheckCache, up to the memory lookup: the route test, the read under RLock and
\* the test of the entry.
CheckCacheMem(r) ==
    /\ req[r].pc = "check"
    /\ LET path == req[r].path
           url == Url(r)
       IN IF ~enableMemCache(path) /\ ~enableDBCache(path)
          THEN req' = [req EXCEPT ![r].pc = "handler"]
          ELSE IF url \in DOMAIN memCache /\ notExpired(memCache[url].until, req[r].start)
          THEN req' = [req EXCEPT ![r] = [@ EXCEPT
                    !.resp = okResp(memCache[url].data, memCache[url].gzip),
                    !.data = memCache[url].data, !.gzip = memCache[url].gzip,
                    !.memRead = TRUE, !.served = "mem", !.pc = "done"]]
          ELSE IF ~enableDBCache(path)
          THEN req' = [req EXCEPT ![r] = [@ EXCEPT !.memRead = TRUE, !.pc = "handler"]]
          ELSE req' = [req EXCEPT ![r] = [@ EXCEPT !.memRead = TRUE, !.pc = "dblookup"]]
    /\ UNCHANGED <<now, enableCache, memCache, dbCache, cronPc, cronUrls>>
    /\ UNCHANGED <<retryVars, lockVars, queryVars>>

\* CheckCache when Scan returned an error: the if is skipped, return false.
afterScanError_Answers(rec, err) ==
    [rec EXCEPT !.scanErr = err, !.resp = httpError, !.served = "error", !.pc = "done"]
afterScanError(rec, err) == [rec EXCEPT !.scanErr = err, !.pc = "handler"]

\* CheckCache: the SELECT and its Scan.  err is nil iff the query ran and found
\* a row; it is sql.ErrNoRows when there is none, and another error when the
\* database fails or the request's deadline has passed.
CheckCacheDB(r) ==
    /\ req[r].pc = "dblookup"
    /\ \E dbOk \in BOOLEAN :
        LET url == Url(r)
            rows == SelectRow(dbCache, url)
        IN IF dbOk /\ rows # {}
           THEN req' = [req EXCEPT ![r] = [@ EXCEPT
                    !.resp = okResp(dbCache[url].data, dbCache[url].gzip),
                    !.data = dbCache[url].data, !.gzip = dbCache[url].gzip,
                    !.scanErr = "nil", !.served = "db", !.pc = "memfill"]]
           ELSE req' = [req EXCEPT ![r] =
                    afterScanError(req[r], IF dbOk THEN "ErrNoRows" ELSE "error")]
    /\ UNCHANGED <<now, enableCache, memCache, dbCache, cronPc, cronUrls>>
    /\ UNCHANGED <<retryVars, lockVars, queryVars>>

\* CheckCache after a row was found and written to the caller: fill the memory
\* cache under Lock, start the last_hit goroutine, return true.
CheckCacheFill(r) ==
    /\ req[r].pc = "memfill"
    /\ memCache' = MemPut(memCache, Url(r), cacheEntry(req[r].start, req[r].data, req[r].gzip))
    /\ req' = [req EXCEPT ![r] = [@ EXCEPT !.pc = "done", !.gpc = "hit"]]
    /\ UNCHANGED <<now, enableCache, dbCache, cronPc, cronUrls>>
    /\ UNCHANGED <<retryVars, lockVars, queryVars>>

\* The end of the last_hit goroutine: an error of retry is logged, nothing else.
afterMarkHit_Surfaced(rec, err) ==
    [rec EXCEPT !.gpc = "done", !.gerr = err,
                !.resp = IF err = "nil" THEN rec.resp ELSE httpError]
afterMarkHit(rec, err) == [rec EXCEPT !.gpc = "done", !.gerr = err]

\* The goroutine of CheckCache: retry(UPDATE cache SET last_hit = start ...).
MarkHit(r) ==
    /\ req[r].gpc = "hit"
    /\ \E outs \in Attempts :
        LET res == dbExec(ctxDone(req[r], now), outs)
        IN /\ dbCache' = IF res.err = "nil"
                         THEN UpdateLastHit(dbCache, Url(r), req[r].start)
                         ELSE dbCache
           /\ req' = [req EXCEPT ![r] = afterMarkHit(req[r], res.err)]
    /\ UNCHANGED <<now, enableCache, memCache, cronPc, cronUrls>>
    /\ UNCHANGED <<retryVars, lockVars, queryVars>>

\* wrap, when f or resultToBytes returned an error: http.Error and return.
afterHandlerError_FallsThrough(rec) ==
    [rec EXCEPT !.called = TRUE, !.resp = httpError, !.served = "error", !.pc = "done",
                !.gpc = "wc_mem"]
afterHandlerError(rec) ==
    [rec EXCEPT !.called = TRUE, !.resp = httpError, !.served = "error", !.pc = "done"]

\* wrap: res, err := f(ctx, r) and resultToBytes(res).  An error of either (the
\* deadline's included) ends the request.
Handler(r) ==
    /\ req[r].pc = "handler"
    /\ \E ok \in BOOLEAN, v \in Results :
        IF ok
        THEN req' = [req EXCEPT ![r] = [@ EXCEPT
                    !.called = TRUE, !.data = resultToBytes(v).data,
                    !.gzip = resultToBytes(v).gzip, !.pc = "write"]]
        ELSE req' = [req EXCEPT ![r] = afterHandlerError(req[r])]
    /\ UNCHANGED <<now, enableCache, memCache, dbCache, cronPc, cronUrls>>
    /\ UNCHANGED <<retryVars, lockVars, queryVars>>

\* wrap: writeDataGzip(w, r, data, gzip), then go h.WriteCache(...) iff enableCache.
WriteResponse(r) ==
    /\ req[r].pc = "write"
    /\ req' = [req EXCEPT ![r] = [@ EXCEPT
                    !.resp = okResp(req[r].data, req[r].gzip),
                    !.served = "handler", !.pc = "done",
                    !.gpc = IF enableCache THEN "wc_mem" ELSE "none"]]
    /\ UNCHANGED <<now, enableCache, memCache, dbCache, cronPc, cronUrls>>
    /\ UNCHANGED <<retryVars, lockVars, queryVars>>

\* WriteCache, up to the memory write: the route test and the write under Lock.
WriteCacheMem(r) ==
    /\ req[r].gpc = "wc_mem"
    /\ LET path == req[r].path
       IN IF ~enableMemCache(path) /\ ~enableDBCache(path)
          THEN /\ memCache' = memCache
               /\ req' = [req EXCEPT ![r].gpc = "done"]
          ELSE /\ memCache' = MemPut(memCache, Url(r),
                                     cacheEntry(req[r].start, req[r].data, req[r].gzip))
               /\ req' = [req EXCEPT ![r].gpc = IF enableDBCache(path) THEN "wc_db" ELSE "done"]
    /\ UNCHANGED <<now, enableCache, dbCache, cronPc, cronUrls>>
    /\ UNCHANGED <<retryVars, lockVars, queryVars>>

\* WriteCache: retry(UPSERT INTO cache ...); an error is logged.
WriteCacheDB(r) ==
    /\ req[r].gpc = "wc_db"
    /\ \E outs \in Attempts :
        LET res == dbExec(ctxDone(req[r], now), outs)
        IN /\ dbCache' = IF res.err = "nil"
                         THEN Upsert(dbCache, Url(r), req[r].data, req[r].gzip, req[r].start)
                         ELSE dbCache
           /\ req' = [req EXCEPT ![r] = [@ EXCEPT !.gpc = "done", !.gerr = res.err]]
    /\ UNCHANGED <<now, enableCache, memCache, cronPc, cronUrls>>
    /\ UNCHANGED <<retryVars, lockVars, queryVars>>

\* ------------------------------------------------- background work, clock

\* main's ticker goroutine: clear the memory cache of old entries.
Sweep ==
    /\ memCache' = SweepMap(memCache, now)
    /\ UNCHANGED <<now, enableCache, dbCache, req, cronPc, cronUrls>>
    /\ UNCHANGED <<retryVars, lockVars, queryVars>>

\* cron: the DELETE of rows not hit for 48 hours; an error ends the run.
CronDelete ==
    /\ cronPc = "idle"
    /\ \E outs \in Attempts :
        IF retry(outs).err = "nil"
        THEN /\ dbCache' = DeleteStale(dbCache, now)
             /\ cronPc' = "select"
        ELSE UNCHANGED <<dbCache, cronPc>>
    /\ UNCHANGED <<now, enableCache, memCache, req, cronUrls>>
    /\ UNCHANGED <<retryVars, lockVars, queryVars>>

\* cron: the SELECT of the ids to recompute; an error ends the run, and so does
\* an empty result.
CronSelect ==
    /\ cronPc = "select"
    /\ \E outs \in Attempts :
        IF retry(outs).err = "nil"
        THEN /\ cronUrls' \in Orders(SelectExpired(dbCache, now))
             /\ cronPc' = IF SelectExpired(dbCache, now) = {} THEN "idle" ELSE "loop"
        ELSE /\ cronUrls' = <<>>
             /\ cronPc' = "idle"
    /\ UNCHANGED <<now, enableCache, memCache, dbCache, req>>
    /\ UNCHANGED <<retryVars, lockVars, queryVars>>

\* cron: one turn of the loop over urls.  Only /api/get-winrates is handled; any
\* error (unknown path, handler, encoding, the UPDATE) returns from cron.
CronRecache ==
    /\ cronPc = "loop"
    /\ LET u == Head(cronUrls)
       IN IF u # "/api/get-winrates"
          THEN /\ cronPc' = "idle"
               /\ cronUrls' = <<>>
               /\ dbCache' = dbCache
          ELSE \E ok \in BOOLEAN, v \in Results, outs \in Attempts :
               IF ok /\ retry(outs).err = "nil"
               THEN /\ dbCache' = UpdateRecached(dbCache, u, resultToBytes(v).data,
                                                 resultToBytes(v).gzip, now)
                    /\ cronUrls' = Tail(cronUrls)
                    /\ cronPc' = IF Tail(cronUrls) = <<>> THEN "idle" ELSE "loop"
               ELSE /\ cronPc' = "idle"
                    /\ cronUrls' = <<>>
                    /\ dbCache' = dbCache
    /\ UNCHANGED <<now, enableCache, memCache, req>>
    /\ UNCHANGED <<retryVars, lockVars, queryVars>>

\* Time passes: an hour, or long enough for cron to drop the rows hit before.
Tick ==
    /\ now < MaxTime
    /\ \E d \in {1, staleAge + 1} : now' = now + d
    /\ UNCHANGED <<enableCache, memCache, dbCache, req, cronPc, cronUrls>>
    /\ UNCHANGED <<retryVars, lockVars, queryVars>>

Next ==
    \/ \E r \in Reqs : Arrive(r)
    \/ \E r \in Reqs : CheckCacheMem(r)
    \/ \E r \in Reqs : CheckCacheDB(r)
    \/ \E r \in Reqs : CheckCacheFill(r)
    \/ \E r \in Reqs : MarkHit(r)
    \/ \E r \in Reqs : Handler(r)
    \/ \E r \in Reqs : WriteResponse(r)
    \/ \E r \in Reqs : WriteCacheMem(r)
    \/ \E r \in Reqs : WriteCacheDB(r)
    \/ Sweep
    \/ CronDelete
    \/ CronSelect
    \/ CronRecache
    \/ Tick

Spec == Init /\ [][Next]_vars

\* The goroutines wrap and CheckCache start are scheduled: once started, each of
\* their steps is eventually taken.
FairSpec ==
    /\ Spec
    /\ \A r \in Reqs : WF_vars(WriteCacheMem(r)) /\ WF_vars(WriteCacheDB(r)) /\ WF_vars(MarkHit(r))

\* ------------------------------------------------------------ retry, txn

\* retry's loop body once fn has returned err: return nil, go round again, or
\* return err.
retryStep_ReturnsCause(count, e) ==
    IF e = Nil THEN [pc |-> "done", count |-> count, ret |-> Nil]
    ELSE IF retryable(e) THEN [pc |-> "test", count |-> count + 1, ret |-> Nil]
    ELSE [pc |-> "done", count |-> count, ret |-> Cause(e)]
retryStep(count, e) ==
    IF e = Nil THEN [pc |-> "done", count |-> count, ret |-> Nil]
    ELSE IF retryable(e) THEN [pc |-> "test", count |-> count + 1, ret |-> Nil]
    ELSE [pc |-> "done", count |-> count, ret |-> e]

\* txn's closure once fn(txn) has returned err: Commit iff err == nil, else
\* Rollback.
afterFn_AlwaysCommit(e) == "commit"
afterFn(e) == IF e = Nil THEN "commit" ELSE "rollback"

\* What BeginTxx, the fn given to txn and Commit can return.
BeginOutcomes == {Nil, ErrReset, ErrDeadline}
TxnFnOutcomes == {Nil, PqError("40001"), ErrConstraint}
CommitOutcomes == {Nil, PqError("40001"), ErrReset}

\* The cache model at rest, for the behaviours of one retry call.
RetryInit ==
    /\ now = 0
    /\ enableCache = TRUE
    /\ memCache = <<>>
    /\ dbCache = <<>>
    /\ req = [r \in Reqs |-> IdleReq]
    /\ cronPc = "idle"
    /\ cronUrls = <<>>
    /\ NoRetryCall
    /\ QueryIdle
    /\ LockIdle

\* retry is called, with a statement (as WriteCache, CheckCache, ClearCache and
\* cron do) or by txn.
RetryCall ==
    /\ rtPc = "idle"
    /\ \E c \in {"exec", "txn"} : rtCaller' = c
    /\ rtPc' = "test"
    /\ UNCHANGED <<rtCount, rtErr, rtRet, rtHist, txPc, txFnErr, txState, txOpen>>
    /\ UNCHANGED <<cacheVars, lockVars, queryVars>>

\* for count := 0; count < 10; count++ : the test, then the call of fn or the
\* return of the limit error.
RetryTest ==
    /\ rtPc = "test"
    /\ IF rtCount < retryLimit
       THEN /\ rtPc' = "fn"
            /\ txPc' = "begin"
            /\ txFnErr' = Nil
            /\ txState' = "none"
            /\ rtRet' = rtRet
       ELSE /\ rtPc' = "done"
            /\ rtRet' = ErrRetryLimit
            /\ UNCHANGED <<txPc, txFnErr, txState>>
    /\ UNCHANGED <<rtCaller, rtCount, rtErr, rtHist, txOpen>>
    /\ UNCHANGED <<cacheVars, lockVars, queryVars>>

\* fn is one statement: it returns nil or an error.
ExecFn ==
    /\ rtPc = "fn"
    /\ rtCaller = "exec"
    /\ \E e \in FnOutcomes :
        /\ rtErr' = e
        /\ rtHist' = Append(rtHist, e)
    /\ rtPc' = "check"
    /\ UNCHANGED <<rtCaller, rtCount, rtRet, txPc, txFnErr, txState, txOpen>>
    /\ UNCHANGED <<cacheVars, lockVars, queryVars>>

\* if err == nil { return nil }; if retryable(err) { continue }; return err
RetryCheck ==
    /\ rtPc = "check"
    /\ rtPc' = retryStep(rtCount, rtErr).pc
    /\ rtCount' = retryStep(rtCount, rtErr).count
    /\ rtRet' = retryStep(rtCount, rtErr).ret
    /\ UNCHANGED <<rtCaller, rtErr, rtHist, txPc, txFnErr, txState, txOpen>>
    /\ UNCHANGED <<cacheVars, lockVars, queryVars>>

\* txn's closure: txn, err := h.x.BeginTxx(ctx, nil); an error is returned.
TxnBegin ==
    /\ rtPc = "fn"
    /\ rtCaller = "txn"
    /\ txPc = "begin"
    /\ \E e \in BeginOutcomes :
        IF e = Nil
        THEN /\ txState' = "open"
             /\ txOpen' = txOpen + 1
             /\ txPc' = "fn"
             /\ UNCHANGED <<rtErr, rtHist, rtPc>>
        ELSE /\ rtErr' = e
             /\ rtHist' = Append(rtHist, e)
             /\ rtPc' = "check"
             /\ UNCHANGED <<txState, txOpen, txPc>>
    /\ UNCHANGED <<rtCaller, rtCount, rtRet, txFnErr>>
    /\ UNCHANGED <<cacheVars, lockVars, queryVars>>

\* txn's closure: err = fn(txn)
TxnFn ==
    /\ rtPc = "fn"
    /\ rtCaller = "txn"
    /\ txPc = "fn"
    /\ \E e \in TxnFnOutcomes :
        /\ txFnErr' = e
        /\ txPc' = afterFn(e)
    /\ UNCHANGED <<rtCaller, rtPc, rtCount, rtErr, rtRet, rtHist, txState, txOpen>>
    /\ UNCHANGED <<cacheVars, lockVars, queryVars>>

\* txn's closure: return txn.Commit().  A Commit that fails leaves the handle
\* done; when the connection was reset the server may have committed or not.
TxnCommit ==
    /\ rtPc = "fn"
    /\ rtCaller = "txn"
    /\ txPc = "commit"
    /\ \E e \in CommitOutcomes :
        /\ rtErr' = e
        /\ rtHist' = Append(rtHist, e)
        /\ txState' \in IF e = Nil THEN {"committed"}
                        ELSE IF e = ErrReset THEN {"committed", "aborted"}
                        ELSE {"aborted"}
    /\ txOpen' = txOpen - 1
    /\ rtPc' = "check"
    /\ UNCHANGED <<rtCaller, rtCount, rtRet, txPc, txFnErr>>
    /\ UNCHANGED <<cacheVars, lockVars, queryVars>>

\* txn's closure: txn.Rollback(); return err.  Rollback's own error is dropped.
TxnRollback ==
    /\ rtPc = "fn"
    /\ rtCaller = "txn"
    /\ txPc = "rollback"
    /\ txState' = "rolledback"
    /\ txOpen' = txOpen - 1
    /\ rtErr' = txFnErr
    /\ rtHist' = Append(rtHist, txFnErr)
    /\ rtPc' = "check"
    /\ UNCHANGED <<rtCaller, rtCount, rtRet, txPc, txFnErr>>
    /\ UNCHANGED <<cacheVars, lockVars, queryVars>>

RetryNext ==
    \/ RetryCall
    \/ RetryTest
    \/ ExecFn
    \/ RetryCheck
    \/ TxnBegin
    \/ TxnFn
    \/ TxnCommit
    \/ TxnRollback

RetrySpec == RetryInit /\ [][RetryNext]_vars

\* Every call made inside retry returns: a step of the call that can be taken
\* is eventually taken.
RetryFairSpec == RetrySpec /\ WF_vars(RetryNext)

\* ------------------------------------------------- goroutines and h.mu

\* What no step of the goroutines below changes.
lockFrame == <<now, enableCache, req, cronPc, cronUrls, retryVars, queryVars>>

\* wrap: a request for WorkerUrl arrives; CheckCache is called iff enableCache,
\* else the handler.
Request(t) ==
    /\ Alive
    /\ th[t].pc = "idle"
    /\ th' = [th EXCEPT ![t] = [@ EXCEPT !.start = now,
                                          !.pc = IF enableCache THEN "cc_rlock" ELSE "gi_rlock"]]
    /\ UNCHANGED <<mu, muInit, heap, config, memCache, dbCache, lockFrame>>

\* CheckCache: h.mu.RLock()
CheckCacheRLock(t) ==
    /\ Alive
    /\ th[t].pc = "cc_rlock"
    /\ CanRLock(mu)
    /\ mu' = RLocked(mu, t)
    /\ th' = [th EXCEPT ![t].pc = "cc_read"]
    /\ UNCHANGED <<muInit, heap, config, memCache, dbCache, lockFrame>>

\* CheckCache: c, ok := h.mu.cache[url]; h.mu.RUnlock(); then the test of c and,
\* on a hit, writeDataGzip and return true.
CheckCacheRead(t) ==
    /\ Alive
    /\ th[t].pc = "cc_read"
    /\ mu' = RUnlocked(mu, t)
    /\ IF WorkerUrl \in DOMAIN memCache /\ notExpired(memCache[WorkerUrl].until, th[t].start)
       THEN th' = [th EXCEPT ![t] = [@ EXCEPT
                    !.resp = okResp(memCache[WorkerUrl].data, memCache[WorkerUrl].gzip),
                    !.pc = "done"]]
       ELSE th' = [th EXCEPT ![t].pc = "cc_select"]
    /\ UNCHANGED <<muInit, heap, config, memCache, dbCache, lockFrame>>

\* CheckCache: the SELECT; a row found is written to the caller.
CheckCacheSelect(t) ==
    /\ Alive
    /\ th[t].pc = "cc_select"
    /\ \E dbOk \in BOOLEAN :
        IF dbOk /\ SelectRow(dbCache, WorkerUrl) # {}
        THEN th' = [th EXCEPT ![t] = [@ EXCEPT
                    !.resp = okResp(dbCache[WorkerUrl].data, dbCache[WorkerUrl].gzip),
                    !.data = dbCache[WorkerUrl].data, !.gzip = dbCache[WorkerUrl].gzip,
                    !.pc = "cf_lock"]]
        ELSE th' = [th EXCEPT ![t].pc = "gi_rlock"]
    /\ UNCHANGED <<mu, muInit, heap, config, memCache, dbCache, lockFrame>>

\* CheckCache and WriteCache: h.mu.Lock(), and the first field of
\* h.mu.cache[url] = cache{until: ..., data: ..., gzip: ...} is stored.
MemWriteLock(t) ==
    /\ Alive
    /\ th[t].pc \in {"cf_lock", "wc_lock"}
    /\ CanLock(mu)
    /\ mu' = Locked(mu, t)
    /\ memCache' = MemPutField(memCache, WorkerUrl, "until",
                                cacheEntry(th[t].start, th[t].data, th[t].gzip).until)
    /\ th' = [th EXCEPT ![t].pc = IF th[t].pc = "cf_lock" THEN "cf_data" ELSE "wc_data"]
    /\ UNCHANGED <<muInit, heap, config, dbCache, lockFrame>>

\* The second field is stored.
MemWriteData(t) ==
    /\ Alive
    /\ th[t].pc \in {"cf_data", "wc_data"}
    /\ memCache' = MemPutField(memCache, WorkerUrl, "data",
                                cacheEntry(th[t].start, th[t].data, th[t].gzip).data)
    /\ th' = [th EXCEPT ![t].pc = IF th[t].pc = "cf_data" THEN "cf_gzip" ELSE "wc_gzip"]
    /\ UNCHANGED <<mu, muInit, heap, config, dbCache, lockFrame>>

\* The third field is stored; h.mu.Unlock().  CheckCache then starts its last_hit
\* goroutine, WriteCache goes on to the UPSERT.
MemWriteUnlock(t) ==
    /\ Alive
    /\ th[t].pc \in {"cf_gzip", "wc_gzip"}
    /\ memCache' = MemPutField(memCache, WorkerUrl, "gzip",
                                cacheEntry(th[t].start, th[t].data, th[t].gzip).gzip)
    /\ mu' = Unlocked(mu, t)
    /\ th' = [th EXCEPT ![t].pc = IF th[t].pc = "cf_gzip" THEN "hit_db" ELSE "wc_db"]
    /\ UNCHANGED <<muInit, heap, config, dbCache, lockFrame>>

\* CheckCache's goroutine: retry(UPDATE cache SET last_hit ...), errors logged.
LastHitUpdate(t) ==
    /\ Alive
    /\ th[t].pc = "hit_db"
    /\ \E outs \in Attempts :
        /\ dbCache' = IF retry(outs).err = "nil"
                       THEN UpdateLastHit(dbCache, WorkerUrl, th[t].start)
                       ELSE dbCache
        /\ th' = [th EXCEPT ![t].pc = "done"]
    /\ UNCHANGED <<mu, muInit, heap, config, memCache, lockFrame>>

\* getInit: h.mu.RLock()
GetInitRLock(t) ==
    /\ Alive
    /\ th[t].pc = "gi_rlock"
    /\ CanRLock(mu)
    /\ mu' = RLocked(mu, t)
    /\ th' = [th EXCEPT ![t].pc = "gi_read"]
    /\ UNCHANGED <<muInit, heap, config, memCache, dbCache, lockFrame>>

\* getInit: init := h.mu.init; h.mu.RUnlock(); return init
GetInitRead(t) ==
    /\ Alive
    /\ th[t].pc = "gi_read"
    /\ mu' = RUnlocked(mu, t)
    /\ th' = [th EXCEPT ![t] = [@ EXCEPT !.init = muInit, !.seen = heap[muInit],
                                          !.pc = "query"]]
    /\ UNCHANGED <<muInit, heap, config, memCache, dbCache, lockFrame>>

\* GetWinrates: h.getBuildBefore(init, args["build"]) is called.
BuildBeforeCall(t) ==
    /\ th[t].pc = "before"
    /\ \E id \in BuildIDs :
        th' = [th EXCEPT ![t] = [@ EXCEPT !.id = id, !.i = 1, !.pc = "gb_loop"]]
    /\ UNCHANGED <<mu, muInit, heap, config, memCache, dbCache, lockFrame>>

\* getBuildBefore: one turn of for i, b := range init.Builds, or the return
\* after the loop.
BuildBeforeStep(t) ==
    /\ th[t].pc = "gb_loop"
    /\ LET step == buildBeforeStep(heap[th[t].init].Builds, th[t].id, th[t].i)
       IN th' = [th EXCEPT ![t] = [@ EXCEPT !.pc = step.pc, !.i = step.i, !.prev = step.prev]]
    /\ UNCHANGED <<mu, muInit, heap, config, memCache, dbCache, lockFrame>>

\* The handler's queries and resultToBytes; then writeDataGzip and, iff
\* enableCache, go h.WriteCache(...).  An error is answered with http.Error.
Query(t) ==
    /\ Alive
    /\ th[t].pc = "query"
    /\ \E ok \in BOOLEAN :
        IF ok
        THEN th' = [th EXCEPT ![t] = [@ EXCEPT
                    !.data = resultToBytes(resultOf(t)).data,
                    !.gzip = resultToBytes(resultOf(t)).gzip,
                    !.resp = okResp(resultToBytes(resultOf(t)).data,
                                    resultToBytes(resultOf(t)).gzip),
                    !.init = 0, !.seen = NoInit, !.id = <<>>, !.i = 0, !.prev = NoPrev,
                    !.pc = IF enableCache THEN "wc_lock" ELSE "done"]]
        ELSE th' = [th EXCEPT ![t] = [@ EXCEPT !.resp = httpError,
                    !.init = 0, !.seen = NoInit, !.id = <<>>, !.i = 0, !.prev = NoPrev,
                    !.pc = "done"]]
    /\ UNCHANGED <<mu, muInit, heap, config, memCache, dbCache, lockFrame>>

\* WriteCache: retry(UPSERT INTO cache ...), errors logged.
WriteCacheUpsert(t) ==
    /\ Alive
    /\ th[t].pc = "wc_db"
    /\ \E outs \in Attempts :
        /\ dbCache' = IF retry(outs).err = "nil"
                       THEN Upsert(dbCache, WorkerUrl, th[t].data, th[t].gzip, th[t].start)
                       ELSE dbCache
        /\ th' = [th EXCEPT ![t].pc = "done"]
    /\ UNCHANGED <<mu, muInit, heap, config, memCache, lockFrame>>

\* main's ticker goroutine: a tick; it calls updateInit.
LoopTick ==
    /\ Alive
    /\ th["loop"].pc = "idle"
    /\ Len(heap) < MaxSnapshots
    /\ th' = [th EXCEPT !["loop"].pc = "ui_get"]
    /\ UNCHANGED <<mu, muInit, heap, config, memCache, dbCache, lockFrame>>

\* Where a goroutine goes when its updateInit returns err.
afterUpdateInit_Continues(t, err) ==
    IF err # "nil" THEN "ui_lock"
    ELSE IF t = "loop" THEN "sw_lock" ELSE "done"
afterUpdateInit(t, err) ==
    IF t = "loop" THEN (IF err = "nil" THEN "sw_lock" ELSE "panic") ELSE "done"

\* updateInit: the SELECT of the config row and json.Unmarshal; an error of
\* either is returned.
UpdateInitGet(t) ==
    /\ Alive
    /\ th[t].pc = "ui_get"
    /\ \E ok \in BOOLEAN :
        IF ok
        THEN th' = [th EXCEPT ![t] = [@ EXCEPT !.blob = config, !.pc = "ui_lock"]]
        ELSE th' = [th EXCEPT ![t] = [@ EXCEPT !.err = "get config",
                                               !.pc = afterUpdateInit(t, "get config")]]
    /\ UNCHANGED <<mu, muInit, heap, config, memCache, dbCache, lockFrame>>

\* updateInit: h.mu.Lock(); h.mu.init = initData{...}: a new value whose Maps
\* and Builds are nil, so that the appends below fill new arrays.
UpdateInitLock(t) ==
    /\ Alive
    /\ th[t].pc = "ui_lock"
    /\ CanLock(mu)
    /\ mu' = Locked(mu, t)
    /\ heap' = Append(heap, newInitData(th[t].blob))
    /\ muInit' = Len(heap) + 1
    /\ th' = [th EXCEPT ![t].pc = "ui_maps"]
    /\ UNCHANGED <<config, memCache, dbCache, lockFrame>>

\* updateInit: the loop over c.Map["map"] and sort.Strings.
UpdateInitMaps(t) ==
    /\ Alive
    /\ th[t].pc = "ui_maps"
    /\ \E order \in Orders(DOMAIN th[t].blob.Map["map"]) :
        heap' = [heap EXCEPT ![muInit] = withMaps(@, order)]
    /\ th' = [th EXCEPT ![t].pc = "ui_builds"]
    /\ UNCHANGED <<mu, muInit, config, memCache, dbCache, lockFrame>>

\* updateInit: the loop over c.Builds.
UpdateInitBuilds(t) ==
    /\ Alive
    /\ th[t].pc = "ui_builds"
    /\ \E order \in Orders(DOMAIN th[t].blob.Builds) :
        heap' = [heap EXCEPT ![muInit] = withBuilds(@, th[t].blob, order)]
    /\ th' = [th EXCEPT ![t].pc = "ui_sort"]
    /\ UNCHANGED <<mu, muInit, config, memCache, dbCache, lockFrame>>

\* updateInit: sort.Slice(h.mu.init.Builds, ...)
UpdateInitSort(t) ==
    /\ Alive
    /\ th[t].pc = "ui_sort"
    /\ heap' = [heap EXCEPT ![muInit] = sortBuilds(@)]
    /\ th' = [th EXCEPT ![t].pc = "ui_lookups"]
    /\ UNCHANGED <<mu, muInit, config, memCache, dbCache, lockFrame>>

\* updateInit: the lookups; h.mu.Unlock(); return nil
UpdateInitUnlock(t) ==
    /\ Alive
    /\ th[t].pc = "ui_lookups"
    /\ heap' = [heap EXCEPT ![muInit] = withLookups(@, th[t].blob)]
    /\ mu' = Unlocked(mu, t)
    /\ th' = [th EXCEPT ![t] = [@ EXCEPT !.blob = NoConfig, !.pc = afterUpdateInit(t, "nil")]]
    /\ UNCHANGED <<muInit, config, memCache, dbCache, lockFrame>>

\* main's ticker goroutine after updateInit: h.mu.Lock()
SweepLock ==
    /\ Alive
    /\ th["loop"].pc = "sw_lock"
    /\ CanLock(mu)
    /\ mu' = Locked(mu, "loop")
    /\ th' = [th EXCEPT !["loop"].pc = "sweep"]
    /\ UNCHANGED <<muInit, heap, config, memCache, dbCache, lockFrame>>

\* ... the deletion of the entries with until < cutoff; h.mu.Unlock()
SweepUnlock ==
    /\ Alive
    /\ th["loop"].pc = "sweep"
    /\ memCache' = SweepMap(memCache, now)
    /\ mu' = Unlocked(mu, "loop")
    /\ th' = [th EXCEPT !["loop"].pc = "idle"]
    /\ UNCHANGED <<muInit, heap, config, dbCache, lockFrame>>

\* Where ClearCache is once its DELETE has returned and the lock is released.
afterClearDelete_SkipsRefresh(err) == IF err = "nil" THEN "ui_get" ELSE "done"
afterClearDelete(err) == "ui_get"

\* ClearCache (registered under -init only, where enableCache is false):
\* h.mu.Lock(); h.mu.cache = make(map[string]cache)
ClearCacheLock ==
    /\ Alive
    /\ ~enableCache
    /\ th["clear"].pc = "idle"
    /\ Len(heap) < MaxSnapshots
    /\ CanLock(mu)
    /\ mu' = Locked(mu, "clear")
    /\ memCache' = <<>>
    /\ th' = [th EXCEPT !["clear"].pc = "cl_delete"]
    /\ UNCHANGED <<muInit, heap, config, dbCache, lockFrame>>

\* ClearCache: retry(DELETE FROM cache), its error logged; h.mu.Unlock(); then
\* updateInit is called.
ClearCacheDelete ==
    /\ Alive
    /\ th["clear"].pc = "cl_delete"
    /\ \E outs \in Attempts :
        /\ dbCache' = IF retry(outs).err = "nil" THEN DeleteAll(dbCache) ELSE dbCache
        /\ th' = [th EXCEPT !["clear"] = [@ EXCEPT !.err = retry(outs).err,
                                                    !.pc = afterClearDelete(retry(outs).err)]]
    /\ mu' = Unlocked(mu, "clear")
    /\ UNCHANGED <<muInit, heap, config, memCache, lockFrame>>

\* Another process (syncConfig) replaces the config row.
SyncConfig ==
    /\ Alive
    /\ config = ConfigOld
    /\ config' = ConfigNew
    /\ UNCHANGED <<mu, muInit, heap, th, memCache, dbCache, lockFrame>>

LockNext ==
    \/ \E t \in Workers : Request(t)
    \/ \E t \in Workers : CheckCacheRLock(t)
    \/ \E t \in Workers : CheckCacheRead(t)
    \/ \E t \in Workers : CheckCacheSelect(t)
    \/ \E t \in Workers : MemWriteLock(t)
    \/ \E t \in Workers : MemWriteData(t)
    \/ \E t \in Workers : MemWriteUnlock(t)
    \/ \E t \in Workers : LastHitUpdate(t)
    \/ \E t \in Workers : GetInitRLock(t)
    \/ \E t \in Workers : GetInitRead(t)
    \/ \E t \in Workers : Query(t)
    \/ \E t \in Workers : WriteCacheUpsert(t)
    \/ LoopTick
    \/ \E t \in {"loop", "clear"} : UpdateInitGet(t)
    \/ \E t \in {"loop", "clear"} : UpdateInitLock(t)
    \/ \E t \in {"loop", "clear"} : UpdateInitMaps(t)
    \/ \E t \in {"loop", "clear"} : UpdateInitBuilds(t)
    \/ \E t \in {"loop", "clear"} : UpdateInitSort(t)
    \/ \E t \in {"loop", "clear"} : UpdateInitUnlock(t)
    \/ SweepLock
    \/ SweepUnlock
    \/ ClearCacheLock
    \/ ClearCacheDelete
    \/ SyncConfig

LockSpec == LockInit /\ [][LockNext]_vars

\* A config row with the builds S.
ConfigWith(S) == [Builds |-> [b \in S |-> [Start |-> 1, End |-> 2]], Map |-> ConfigOld.Map]

\* getBuildBefore alone: a handler holds the snapshot updateInit built from some
\* config and is about to call getBuildBefore.
BuildInit ==
    /\ now = 0
    /\ enableCache = FALSE
    /\ memCache = <<>>
    /\ dbCache = <<>>
    /\ req = [r \in Reqs |-> IdleReq]
    /\ cronPc = "idle"
    /\ cronUrls = <<>>
    /\ NoRetryCall
    /\ QueryIdle
    /\ mu = [w |-> "none", r |-> {}]
    /\ muInit = 1
    /\ \E S \in SUBSET BuildIDs :
        /\ config = ConfigWith(S)
        /\ \E mo \in Orders(DOMAIN ConfigOld.Map["map"]), bo \in Orders(S) :
                heap = <<buildInit(ConfigWith(S), mo, bo)>>
    /\ th = [t \in Goroutines |->
                IF t = "w1" THEN [IdleTh EXCEPT !.pc = "before", !.init = 1, !.seen = heap[1]]
                ELSE IdleTh]

BuildNext ==
    \/ \E t \in {"w1"} : BuildBeforeCall(t)
    \/ \E t \in {"w1"} : BuildBeforeStep(t)

BuildSpec == BuildInit /\ [][BuildNext]_vars

\* ------------------------------------------------- the aggregate handlers

\* The strings of a request: "" and the display names a client sends (hero
\* "A", an unconfigured "Z", build "b", mode "3", hero levels "1", "5", "20").
NoStr == <<>>
HeroA == <<65>>
NameZ == <<90>>
BuildB == <<98>>
Mode3 == <<51>>
Level1 == <<49>>
Level5 == <<53>>
Level20 == <<50, 48>>
Talent1 == <<116, 49>>
Talent2 == <<116, 50>>
Talent3 == <<116, 51>>

\* const defaultHerolevel = "5"
defaultHerolevel == Level5

\* popularGameLimit = 10
popularGameLimit == 10

\* hero_level >= $n with the string s bound to $n: the number the database
\* reads s as.
levelValue(s) == CASE s = Level1 -> 1 [] s = Level5 -> 5 [] s = Level20 -> 20

\* The config rows of this part: groups build, hero, map and talent (mode has
\* no group), each a bijection between display names and codes; two contents
\* that give the talents different codes.
AggConfigA ==
    [Builds |-> ConfigOld.Builds,
     Map |-> [build |-> (BuildB :> "1"),
              hero |-> (HeroA :> "1"),
              map |-> (MapA :> "2") @@ (MapB :> "1"),
              talent |-> (Talent1 :> "10") @@ (Talent2 :> "11") @@ (Talent3 :> "12")]]
AggConfigB ==
    [Builds |-> ConfigOld.Builds,
     Map |-> [build |-> (BuildB :> "1"),
              hero |-> (HeroA :> "1"),
              map |-> (MapA :> "2") @@ (MapB :> "1"),
              talent |-> (Talent1 :> "11") @@ (Talent2 :> "12") @@ (Talent3 :> "10")]]
AggConfigs == {AggConfigA, AggConfigB}

\* m[v] on a Go map of strings: the value, or "" when v is no key.
mapCode(m, v) == IF v \in DOMAIN m THEN m[v] ELSE ""

\* init.lookups[group](code): func(name string) string { return lookup[name] },
\* "" when the code is no key of lookup.
lookupName(d, group, code) ==
    IF code \in DOMAIN d.lookups[group] THEN d.lookups[group][code] ELSE NoStr

\* errors.New / errors.Errorf of the aggregate functions.
NoErr == [msg |-> "nil", key |-> "", value |-> NoStr]
ErrRequired(key) == [msg |-> "required", key |-> key, value |-> NoStr]
ErrUnrecognized(key, v) == [msg |-> "unrecognized", key |-> key, value |-> v]
ErrSelect == [msg |-> "select", key |-> "", value |-> NoStr]

\* The argument checks at the head of getBuildWinrates, getWinrates and
\* GetCompareHero.
requiredArgs_BuildOnly(fn, args) ==
    IF args["build"] = NoStr THEN ErrRequired("build") ELSE NoErr
requiredArgs(fn, args) ==
    IF args["build"] = NoStr THEN ErrRequired("build")
    ELSE IF fn # "getWinrates" /\ args["hero"] = NoStr THEN ErrRequired("hero")
    ELSE NoErr

\* for _, key := range []string{...}
filterKeys(fn) ==
    IF fn = "getWinrates" THEN <<"build", "map", "mode">> ELSE <<"build", "hero", "map", "mode">>

\* One turn of the loop over the keys: acc is [err, wheres, params].
translateKey_PassThrough(fn, d, args, key, acc) ==
    IF acc.err # NoErr \/ args[key] = NoStr THEN acc
    ELSE [acc EXCEPT !.wheres = Append(@, [col |-> key, op |-> "=", p |-> Len(acc.params) + 1]),
                     !.params = Append(@, IF fn # "GetCompareHero" /\ key \in DOMAIN d.config.Map
                                           THEN mapCode(d.config.Map[key], args[key])
                                           ELSE args[key])]
translateKey(fn, d, args, key, acc) ==
    IF acc.err # NoErr \/ args[key] = NoStr THEN acc
    ELSE IF fn # "GetCompareHero" /\ key \in DOMAIN d.config.Map
            /\ mapCode(d.config.Map[key], args[key]) = ""
    THEN [acc EXCEPT !.err = ErrUnrecognized(key, args[key])]
    ELSE [acc EXCEPT !.wheres = Append(@, [col |-> key, op |-> "=", p |-> Len(acc.params) + 1]),
                     !.params = Append(@, IF fn # "GetCompareHero" /\ key \in DOMAIN d.config.Map
                                           THEN d.config.Map[key][args[key]]
                                           ELSE args[key])]

RECURSIVE translateFrom(_, _, _, _, _)
translateFrom(fn, d, args, i, acc) ==
    IF i > Len(filterKeys(fn)) THEN acc
    ELSE translateFrom(fn, d, args, i + 1, translateKey(fn, d, args, filterKeys(fn)[i], acc))

\* hl := args["herolevel"]; if hl == "" { hl = defaultHerolevel }; the predicate
\* hero_level >= $n and its parameter.
heroLevelFloor(args, acc) ==
    [acc EXCEPT !.wheres = Append(@, [col |-> "hero_level", op |-> ">=", p |-> Len(acc.params) + 1]),
                !.params = Append(@, IF args["herolevel"] = NoStr THEN defaultHerolevel
                                      ELSE args["herolevel"])]

\* The WHERE clause and the parameters the function builds, or its error.
buildQuery(fn, d, args) ==
    LET acc == translateFrom(fn, d, args, 1, [err |-> NoErr, wheres |-> <<>>, params |-> <<>>])
    IN IF acc.err # NoErr THEN acc ELSE heroLevelFloor(args, acc)

\* The rows SELECT COUNT(*) count, winner, talents ... GROUP BY talents, winner
\* can return for one build and hero: at most one row per talent set and
\* winner flag.  The talent sets: codes "10","11"; codes "10","12"; one with a
\* code no config has.
ComboA == <<"10", "11">>
ComboB == <<"10", "12">>
ComboU == <<"99">>
RowChoices ==
    [ {<<c, w>> : c \in {ComboA, ComboB}, w \in BOOLEAN} \cup {<<ComboU, TRUE>>}
        -> {0, 3, 7, 11} ]
RowsOf(f) ==
    { [Count |-> f[k], Talents |-> k[1], Winner |-> k[2]] : k \in {x \in DOMAIN f : f[x] > 0} }
RowSets ==
    { RowsOf(f) : f \in { g \in RowChoices :
        /\ \A k \in DOMAIN g : (k[2] => g[k] \in {0, 3, 11}) /\ (~k[2] => g[k] \in {0, 7})
        /\ g[<<ComboU, TRUE>>] \in {0, 11} } }

\* map[string]struct{Total, Won int} and map[string]Total at a key: the value,
\* or the zero value.
totalAt(total, k) == IF k \in DOMAIN total THEN total[k] ELSE [Total |-> 0, Won |-> 0]
tallyAt(m, name) == IF name \in DOMAIN m THEN m[name] ELSE [Wins |-> 0, Losses |-> 0]

\* tally := make(map[int]map[string]Total); for i := 1; i <= 7; i++ { ... }
emptyTally == [i \in 1..7 |-> <<>>]

\* One turn of for _, wr := range winrates.
addRow_CountsGames(d, st, wr) ==
    [total |-> [k \in DOMAIN st.total \cup {wr.Talents} |->
                    IF k = wr.Talents
                    THEN [Total |-> totalAt(st.total, k).Total + 1,
                          Won |-> totalAt(st.total, k).Won + (IF wr.Winner THEN 1 ELSE 0)]
                    ELSE st.total[k]],
     tally |-> [i \in 1..7 |->
                    IF i > Len(wr.Talents) THEN st.tally[i]
                    ELSE LET name == lookupName(d, "talent", wr.Talents[i])
                         IN [n \in DOMAIN st.tally[i] \cup {name} |->
                                IF n = name
                                THEN [Wins |-> tallyAt(st.tally[i], n).Wins
                                                + (IF wr.Winner THEN 1 ELSE 0),
                                      Losses |-> tallyAt(st.tally[i], n).Losses
                                                + (IF wr.Winner THEN 0 ELSE 1)]
                                ELSE st.tally[i][n]]]]
addRow(d, st, wr) ==
    [total |-> [k \in DOMAIN st.total \cup {wr.Talents} |->
                    IF k = wr.Talents
                    THEN [Total |-> totalAt(st.total, k).Total + wr.Count,
                          Won |-> totalAt(st.total, k).Won + (IF wr.Winner THEN wr.Count ELSE 0)]
                    ELSE st.total[k]],
     tally |-> [i \in 1..7 |->
                    IF i > Len(wr.Talents) THEN st.tally[i]
                    ELSE LET name == lookupName(d, "talent", wr.Talents[i])
                         IN [n \in DOMAIN st.tally[i] \cup {name} |->
                                IF n = name
                                THEN [Wins |-> tallyAt(st.tally[i], n).Wins
                                                + (IF wr.Winner THEN wr.Count ELSE 0),
                                      Losses |-> tallyAt(st.tally[i], n).Losses
                                                + (IF wr.Winner THEN 0 ELSE wr.Count)]
                                ELSE st.tally[i][n]]]]

\* The loop over the rows, in the order the database returned them.
RECURSIVE foldRows(_, _, _)
foldRows(d, st, winrates) ==
    IF winrates = <<>> THEN st
    ELSE foldRows(d, addRow(d, st, Head(winrates)), Tail(winrates))

\* float64(t.Won) / float64(t.Total) as the fraction it is; 0 as 0/1.  For
\* counts this small the quotients of two different fractions differ.
zeroRate == [n |-> 0, d |-> 1]
rateGreater(a, b) == a.n * b.d > b.n * a.d

\* b := build{Build: talentNames, Total: t.Total}; if t.Won > popularGameLimit
\* { b.Winrate = ... }
mkBuild_AlwaysRate(d, k, t) ==
    [Build |-> [i \in 1..Len(k) |-> lookupName(d, "talent", k[i])],
     Total |-> t.Total,
     Winrate |-> [n |-> t.Won, d |-> t.Total]]
mkBuild(d, k, t) ==
    [Build |-> [i \in 1..Len(k) |-> lookupName(d, "talent", k[i])],
     Total |-> t.Total,
     Winrate |-> IF t.Won > popularGameLimit THEN [n |-> t.Won, d |-> t.Total] ELSE zeroRate]

\* for n, t := range total { builds = append(builds, b) }, range going through
\* the keys in the given order.
buildsOf(d, total, order) == [i \in 1..Len(order) |-> mkBuild(d, order[i], total[order[i]])]

\* sort.Slice(builds, func(i, j) { return builds[i].Total > builds[j].Total }),
\* by insertion as sort.Slice does for a short slice: each element in turn goes
\* behind the elements that are not smaller, so equal ones keep their order.
RECURSIVE insertByTotal(_, _)
insertByTotal(x, sorted) ==
    IF sorted = <<>> THEN <<x>>
    ELSE IF x.Total > Head(sorted).Total THEN <<x>> \o sorted
    ELSE <<Head(sorted)>> \o insertByTotal(x, Tail(sorted))

RECURSIVE sortByTotal(_)
sortByTotal(builds) ==
    IF builds = <<>> THEN <<>>
    ELSE insertByTotal(builds[Len(builds)], sortByTotal(SubSeq(builds, 1, Len(builds) - 1)))

\* sort.Slice(builds, func(i, j) { return builds[i].Winrate > builds[j].Winrate })
RECURSIVE insertByWinrate(_, _)
insertByWinrate(x, sorted) ==
    IF sorted = <<>> THEN <<x>>
    ELSE IF rateGreater(x.Winrate, Head(sorted).Winrate) THEN <<x>> \o sorted
    ELSE <<Head(sorted)>> \o insertByWinrate(x, Tail(sorted))

RECURSIVE sortByWinrate(_)
sortByWinrate(builds) ==
    IF builds = <<>> THEN <<>>
    ELSE insertByWinrate(builds[Len(builds)], sortByWinrate(SubSeq(builds, 1, Len(builds) - 1)))

\* n := 5; if n > len(builds) { n = len(builds) }
topCount == 5
firstBuilds(builds) ==
    SubSeq(builds, 1, IF topCount > Len(builds) THEN Len(builds) ELSE topCount)

\* if b.Total > popularGameLimit { popularBuilds = append(popularBuilds, b) }
isPopular(b) == b.Total > popularGameLimit
popularOf(sorted) == SelectSeq(firstBuilds(sorted), isPopular)

\* if b.Winrate > 0 { winningBuilds = append(winningBuilds, b) }
isWinning(b) == rateGreater(b.Winrate, zeroRate)
winningOf(sorted) == SelectSeq(firstBuilds(sorted), isWinning)

\* for _, wr := range winrates of countWins: rows [Counter, Count, Winner].
countRow(d, group, tally, wr) ==
    LET n == IF group = "" THEN wr.Counter ELSE lookupName(d, group, wr.Counter)
    IN [k \in DOMAIN tally \cup {n} |->
            IF k = n
            THEN [Wins |-> tallyAt(tally, k).Wins + (IF wr.Winner THEN wr.Count ELSE 0),
                  Losses |-> tallyAt(tally, k).Losses + (IF wr.Winner THEN 0 ELSE wr.Count)]
            ELSE tally[k]]

RECURSIVE countWins(_, _, _, _)
countWins(d, group, tally, winrates) ==
    IF winrates = <<>> THEN tally
    ELSE countWins(d, group, countRow(d, group, tally, Head(winrates)), Tail(winrates))

\* The rows of getWinrates' query: per hero code ("1", and "9" that no config
\* has) and winner flag at most one.
HeroRowSets ==
    { { [Counter |-> k[1], Winner |-> k[2], Count |-> f[k]] : k \in {x \in DOMAIN f : f[x] > 0} } :
        f \in [ {<<"1", TRUE>>, <<"1", FALSE>>, <<"9", TRUE>>} -> {0, 3} ] }

\* Some order in which the database returns the rows.
RowsInOrder(S) == CHOOSE q \in Orders(S) : TRUE

\* The arguments of a request.
AggArgs ==
    [build : {NoStr, BuildB}, hero : {NoStr, HeroA, NameZ}, map : {NoStr, MapA, NameZ},
     mode : {NoStr, Mode3}, herolevel : {NoStr, Level1, Level20}]

AggFns == {"getBuildWinrates", "getWinrates", "GetCompareHero"}

\* What a call returns: (tally, popularBuilds, winningBuilds, err).
NoRet == [tally |-> <<>>, popular |-> <<>>, winning |-> <<>>, err |-> NoErr]

\* The locals of a call that has not begun.
NoCall ==
    [pc |-> "idle", fn |-> "", args |-> [build |-> NoStr, hero |-> NoStr, map |-> NoStr,
                                         mode |-> NoStr, herolevel |-> NoStr],
     init |-> NoInit, data |-> {}, run |-> 1, first |-> NoRet,
     q |-> [err |-> NoErr, wheres |-> <<>>, params |-> <<>>], nq |-> 0,
     st |-> [total |-> <<>>, tally |-> <<>>], builds |-> <<>>,
     popular |-> <<>>, ret |-> NoRet]

otherFrame == <<cacheVars, retryVars, lockVars, grp, chunk>>

\* A handler has taken the snapshot with getInit and calls the function.
AggCall ==
    /\ agg.pc = "idle"
    /\ \E fn \in AggFns, args \in AggArgs, c \in AggConfigs :
        \E mo \in Orders(DOMAIN c.Map["map"]), bo \in Orders(DOMAIN c.Builds) :
            agg' = [NoCall EXCEPT !.pc = "check", !.fn = fn, !.args = args,
                                  !.init = buildInit(c, mo, bo)]
    /\ UNCHANGED otherFrame

\* if args["build"] == "" { return ... errors.New("build required") } ...
AggCheck ==
    /\ agg.pc = "check"
    /\ agg' = IF requiredArgs(agg.fn, agg.args) # NoErr
              THEN [agg EXCEPT !.pc = "done", !.ret = [NoRet EXCEPT !.err = requiredArgs(agg.fn, agg.args)]]
              ELSE [agg EXCEPT !.pc = "query"]
    /\ UNCHANGED otherFrame

\* The loop over the keys, the hero level, the text of the query.
AggQuery ==
    /\ agg.pc = "query"
    /\ LET q == buildQuery(agg.fn, agg.init, agg.args)
       IN agg' = IF q.err # NoErr
                 THEN [agg EXCEPT !.pc = "done", !.q = q, !.ret = [NoRet EXCEPT !.err = q.err]]
                 ELSE [agg EXCEPT !.pc = "select", !.q = q]
    /\ UNCHANGED otherFrame

\* h.x.Select(&winrates, query, params...): an error, or the rows of the table
\* (those the first run saw, when this is the second run over unchanged data).
\* getWinrates ends with countWins; GetCompareHero goes on to getGames.
AggSelect ==
    /\ agg.pc = "select"
    /\ \/ agg' = [agg EXCEPT !.pc = "done", !.nq = @ + 1, !.ret = [NoRet EXCEPT !.err = ErrSelect]]
       \/ /\ agg.fn = "getBuildWinrates"
          /\ \E rows \in (IF agg.run = 1 THEN RowSets ELSE {agg.data}) :
                agg' = [agg EXCEPT !.pc = "builds", !.nq = @ + 1, !.data = rows,
                        !.st = foldRows(agg.init, [total |-> <<>>, tally |-> emptyTally],
                                        RowsInOrder(rows))]
       \/ /\ agg.fn = "getWinrates"
          /\ \E rows \in (IF agg.run = 1 THEN HeroRowSets ELSE {agg.data}) :
                agg' = [agg EXCEPT !.pc = "done", !.nq = @ + 1, !.data = rows,
                        !.ret = [NoRet EXCEPT !.tally =
                                    countWins(agg.init, "hero", <<>>, RowsInOrder(rows))]]
       \/ /\ agg.fn = "GetCompareHero"
          /\ agg' = [agg EXCEPT !.pc = "done", !.nq = @ + 1]
    /\ UNCHANGED otherFrame

\* for n, t := range total { ... builds = append(builds, b) }
AggBuilds ==
    /\ agg.pc = "builds"
    /\ \E order \in Orders(DOMAIN agg.st.total) :
        agg' = [agg EXCEPT !.pc = "popular", !.builds = buildsOf(agg.init, agg.st.total, order)]
    /\ UNCHANGED otherFrame

\* The sort by Total and the popular builds among the first n.
AggPopular ==
    /\ agg.pc = "popular"
    /\ agg' = [agg EXCEPT !.pc = "winning", !.builds = sortByTotal(@),
                          !.popular = popularOf(sortByTotal(agg.builds))]
    /\ UNCHANGED otherFrame

\* The sort by Winrate, the winning builds among the first n, the return.
AggWinning ==
    /\ agg.pc = "winning"
    /\ agg' = [agg EXCEPT !.pc = "done", !.builds = sortByWinrate(@),
                          !.ret = [tally |-> agg.st.tally, popular |-> agg.popular,
                                   winning |-> winningOf(sortByWinrate(agg.builds)),
                                   err |-> NoErr]]
    /\ UNCHANGED otherFrame

\* The same request again, with the same snapshot and the table unchanged.
AggRerun ==
    /\ agg.pc = "done"
    /\ agg.run = 1
    /\ agg.fn = "getBuildWinrates"
    /\ agg.ret.err = NoErr
    /\ agg' = [NoCall EXCEPT !.pc = "check", !.fn = agg.fn, !.args = agg.args, !.init = agg.init,
                             !.data = agg.data, !.run = 2, !.first = agg.ret]
    /\ UNCHANGED otherFrame

AggInit ==
    /\ now = 0
    /\ enableCache = FALSE
    /\ memCache = <<>>
    /\ dbCache = <<>>
    /\ req = [r \in Reqs |-> IdleReq]
    /\ cronPc = "idle"
    /\ cronUrls = <<>>
    /\ NoRetryCall
    /\ LockIdle
    /\ agg = NoCall
    /\ grp = NoGrp
    /\ chunk = NoChunk

AggNext ==
    \/ AggCall
    \/ AggCheck
    \/ AggQuery
    \/ AggSelect
    \/ AggBuilds
    \/ AggPopular
    \/ AggWinning
    \/ AggRerun

AggSpec == AggInit /\ [][AggNext]_vars

\* --------------------------------------------- the handlers with an errgroup

\* GetBuildWinrates, GetWinrates and GetHero start two goroutines with g.Go, one
\* for the current build and one for the build before it; in GetHero each of
\* them runs getHero, which starts five goroutines of its own group.  The
\* sub-queries of a branch:
GrpKinds == {"GetBuildWinrates", "GetWinrates", "GetHero"}
Branches == {"cur", "prev"}
SubsOf(kind) ==
    IF kind = "GetHero" THEN {"base", "maps", "modes", "levels", "lengths"} ELSE {"query"}

\* The branch for the previous build runs sub-queries only if getBuildBefore
\* found one.
Started(g, b) == b = "cur" \/ g.hasPrev

\* Every sub-query of branch b has returned.
SubsDone(g, b) == \A s \in SubsOf(g.kind) : Started(g, b) => g.sub[b][s] # "running"

\* getHero's first goroutine: res.Base, err = h.countWins(...); if
\* len(res.Base) == 0 { res.Base[""] = Total{} }.  countWins returns a nil map
\* with its error, and the assignment to an entry of a nil map panics.
baseReturns(kind, s, outcome) ==
    IF kind = "GetHero" /\ s = "base" /\ outcome = "failed" THEN "panic" ELSE outcome

\* errOnce.Do(func() { g.err = err; g.cancel() }): the first error stays.
errOnce(old, err) == IF old = "nil" THEN err ELSE old

\* wrap: if err != nil { http.Error(w, err.Error(), 500); return } ...
\* writeDataGzip(w, r, data, gzip)
respondTo(err, res) ==
    IF err # "nil"
    THEN [code |-> 500, Current |-> "nil", Previous |-> "nil"]
    ELSE [code |-> 200, Current |-> res.Current, Previous |-> res.Previous]

\* The request before its first g.Go.
NoRequest ==
    [pc |-> "idle", kind |-> "GetHero", hasPrev |-> FALSE,
     sub |-> [b \in Branches |-> [s \in {} |-> "running"]],
     innerErr |-> [b \in Branches |-> "nil"], innerCancel |-> [b \in Branches |-> FALSE],
     br |-> [b \in Branches |-> "running"],
     err |-> "nil", cancel |-> FALSE, firstFailed |-> "nil",
     res |-> [Current |-> "nil", Previous |-> "nil"],
     resp |-> [code |-> 0, Current |-> "nil", Previous |-> "nil"]]

grpFrame == <<cacheVars, retryVars, lockVars, agg, chunk>>

\* The handler: errgroup.WithContext, the two g.Go calls, then g.Wait().
GrpStart ==
    /\ grp.pc = "idle"
    /\ \E kind \in GrpKinds, hasPrev \in BOOLEAN :
        grp' = [NoRequest EXCEPT !.pc = "wait", !.kind = kind, !.hasPrev = hasPrev,
                    !.sub = [b \in Branches |-> [s \in SubsOf(kind) |-> "running"]]]
    /\ UNCHANGED grpFrame

\* A sub-query ends, with rows or with an error (of the database, or of the
\* context once it is cancelled).  In getHero an error goes to the group of the
\* branch, which cancels its context.
SubFinish(b, s) ==
    /\ grp.pc = "wait"
    /\ Started(grp, b)
    /\ s \in SubsOf(grp.kind)
    /\ grp.sub[b][s] = "running"
    /\ \E outcome \in {"ok", "failed"} :
        LET ends == baseReturns(grp.kind, s, outcome) IN
        IF ends = "panic"
        THEN grp' = [grp EXCEPT !.pc = "crashed", !.sub[b][s] = "failed",
                                !.firstFailed = errOnce(@, <<b, s>>)]
        ELSE grp' = [grp EXCEPT !.sub[b][s] = ends,
                        !.firstFailed = IF ends = "failed" THEN errOnce(@, <<b, s>>) ELSE @,
                        !.innerErr[b] = IF ends = "failed" THEN errOnce(@, s) ELSE @,
                        !.innerCancel[b] = @ \/ ends = "failed"]
    /\ UNCHANGED grpFrame

\* The function given to g.Go returns: for the previous build at once with nil
\* when there is none; else after the call (in getHero, after g.Wait() of its
\* group) with the result and the error, wrapped.  An error goes to the
\* handler's group, which keeps the first and cancels the context.
BranchReturn(b) ==
    /\ grp.pc = "wait"
    /\ grp.br[b] = "running"
    /\ SubsDone(grp, b)
    /\ LET failed == Started(grp, b) /\ grp.innerErr[b] # "nil"
           value == IF ~Started(grp, b) THEN "nil"
                    ELSE IF failed /\ grp.kind # "GetHero" THEN "nil"
                    ELSE IF failed THEN "partial" ELSE "result"
       IN grp' = [grp EXCEPT
                    !.br[b] = IF failed THEN "failed" ELSE "ok",
                    !.innerCancel[b] = @ \/ (Started(grp, b) /\ grp.kind = "GetHero"),
                    !.res = IF b = "cur" THEN [@ EXCEPT !.Current = value]
                            ELSE [@ EXCEPT !.Previous = value],
                    !.err = IF failed THEN errOnce(@, <<b, grp.innerErr[b]>>) ELSE @,
                    !.cancel = @ \/ failed]
    /\ UNCHANGED grpFrame

\* err := g.Wait(); return res, err
GrpWait ==
    /\ grp.pc = "wait"
    /\ \A b \in Branches : grp.br[b] # "running"
    /\ grp' = [grp EXCEPT !.pc = "returned", !.cancel = TRUE]
    /\ UNCHANGED grpFrame

\* wrap answers.
GrpRespond ==
    /\ grp.pc = "returned"
    /\ grp' = [grp EXCEPT !.pc = "responded", !.resp = respondTo(grp.err, grp.res)]
    /\ UNCHANGED grpFrame

GrpInit ==
    /\ now = 0
    /\ enableCache = FALSE
    /\ memCache = <<>>
    /\ dbCache = <<>>
    /\ req = [r \in Reqs |-> IdleReq]
    /\ cronPc = "idle"
    /\ cronUrls = <<>>
    /\ NoRetryCall
    /\ LockIdle
    /\ agg = NoAgg
    /\ grp = NoRequest
    /\ chunk = NoChunk

GrpNext ==
    \/ GrpStart
    \/ \E b \in Branches, s \in {"base", "maps", "modes", "levels", "lengths", "query"} :
            SubFinish(b, s)
    \/ \E b \in Branches : BranchReturn(b)
    \/ GrpWait
    \/ GrpRespond

GrpSpec == GrpInit /\ [][GrpNext]_vars

\* ------------------------------------------------ getGames of GetCompareHero

\* The ids of a team are ids[1..n]; getGames has sent the first off of them.
\* limit := 1000; if limit > len(ids) { limit = len(ids) }; ids[:limit] are the
\* places off+1 .. off+limit.
nextChunk_Uncapped(n, off) == [lo |-> off + 1, hi |-> off + chunkLimit]
nextChunk(n, off) ==
    [lo |-> off + 1, hi |-> off + (IF chunkLimit > n - off THEN n - off ELSE chunkLimit)]

\* The numbers of ids of team 1 that are tried beside every number up to MaxIds
\* for team 0.
OtherTeamIds == {0, chunkLimit + 1}

\* GetCompareHero before getGames(0, team0).
NoGames ==
    [pc |-> "idle", n |-> <<0, 0>>, team |-> 0, off |-> 0, sent |-> <<>>, merged |-> 0,
     ret |-> [result |-> "nil", err |-> "nil"]]

chunkFrame == <<cacheVars, retryVars, lockVars, agg, grp>>

\* The first query of GetCompareHero has returned the games: n[1] of team 0
\* and n[2] of team 1; getGames(0, team0) is called.
GamesCall ==
    /\ chunk.pc = "idle"
    /\ \E n0 \in 0..MaxIds, n1 \in OtherTeamIds :
        chunk' = [NoGames EXCEPT !.pc = "loop", !.n = <<n0, n1>>]
    /\ UNCHANGED chunkFrame

\* for len(ids) > 0 { ... }: one query with the next ids; on an error getGames
\* returns it and GetCompareHero returns nil, err; else the rows are merged
\* and ids = ids[limit:].
GamesChunk ==
    /\ chunk.pc = "loop"
    /\ chunk.off < chunk.n[chunk.team + 1]
    /\ LET c == nextChunk(chunk.n[chunk.team + 1], chunk.off) IN
       \E ok \in BOOLEAN :
        chunk' = IF ok
                 THEN [chunk EXCEPT !.sent = Append(@, [team |-> chunk.team, lo |-> c.lo, hi |-> c.hi]),
                                    !.merged = @ + 1, !.off = c.hi]
                 ELSE [chunk EXCEPT !.sent = Append(@, [team |-> chunk.team, lo |-> c.lo, hi |-> c.hi]),
                                    !.pc = "done", !.ret = [result |-> "nil", err |-> "select"]]
    /\ UNCHANGED chunkFrame

\* len(ids) == 0: getGames returns nil; after team 0 comes getGames(1, team1),
\* after team 1 the result.
GamesReturn ==
    /\ chunk.pc = "loop"
    /\ chunk.off >= chunk.n[chunk.team + 1]
    /\ chunk' = IF chunk.team = 0
                THEN [chunk EXCEPT !.team = 1, !.off = 0]
                ELSE [chunk EXCEPT !.pc = "done", !.ret = [result |-> "comparison", err |-> "nil"]]
    /\ UNCHANGED chunkFrame

ChunkInit ==
    /\ now = 0
    /\ enableCache = FALSE
    /\ memCache = <<>>
    /\ dbCache = <<>>
    /\ req = [r \in Reqs |-> IdleReq]
    /\ cronPc = "idle"
    /\ cronUrls = <<>>
    /\ NoRetryCall
    /\ LockIdle
    /\ agg = NoAgg
    /\ grp = NoGrp
    /\ chunk = NoGames

ChunkNext ==
    \/ GamesCall
    \/ GamesChunk
    \/ GamesReturn

\* A query that was sent returns (the request's context has a deadline) and the
\* goroutine of the handler is scheduled.
ChunkSpec == ChunkInit /\ [][ChunkNext]_vars /\ WF_vars(ChunkNext)

\* ------------------------------------------- the skill bounds of getWinrates

\* strconv.Atoi on a string of bytes: an optional sign and decimal digits.
isDigits(s) == s # <<>> /\ \A k \in 1..Len(s) : s[k] \in 48..57
RECURSIVE decimal(_)
decimal(s) == IF s = <<>> THEN 0 ELSE decimal(SubSeq(s, 1, Len(s) - 1)) * 10 + (s[Len(s)] - 48)
atoi(s) ==
    IF isDigits(s) THEN [ok |-> TRUE, n |-> decimal(s)]
    ELSE IF s # <<>> /\ s[1] \in {43, 45} /\ isDigits(Tail(s))
    THEN [ok |-> TRUE, n |-> IF s[1] = 45 THEN 0 - decimal(Tail(s)) ELSE decimal(Tail(s))]
    ELSE [ok |-> FALSE, n |-> 0]

ErrAtoi(s) == [msg |-> "strconv.Atoi: invalid syntax", key |-> "", value |-> s]
ErrUnknownBuild(b) == [msg |-> "unknown build", key |-> "build", value |-> b]

\* updateInit: bs := make(map[string]map[Mode]Stats); the loop that would fill
\* it from table skillstats is commented out, so BuildStats of every snapshot
\* is the empty map.
BuildStats == [b \in {} |-> <<>>]

\* modes, ok := init.BuildStats[args["build"]]
statsOf_Unchecked(bs, build) ==
    [ok |-> TRUE, modes |-> IF build \in DOMAIN bs THEN bs[build] ELSE <<>>]
statsOf(bs, build) ==
    IF build \in DOMAIN bs THEN [ok |-> TRUE, modes |-> bs[build]]
    ELSE [ok |-> FALSE, modes |-> <<>>]

\* modes[Mode(i)].Quantile: the table, or the nil slice of the zero Stats.
quantilesOf(modes, i) == IF i \in DOMAIN modes THEN modes[i].Quantile ELSE <<>>

\* quantiles[i] of Go (indices from 0): the element, or the run-time panic
\* "index out of range".
indexInto(quantiles, i) ==
    IF i >= 0 /\ i < Len(quantiles) THEN [panic |-> FALSE, v |-> quantiles[i + 1]]
    ELSE [panic |-> TRUE, v |-> 0]

\* if sl != "" { wheres = append(...); i, err = strconv.Atoi(sl); ...;
\* params = append(params, quantiles[i]) }, and the same for sh with <=.
skillBound(acc, quantiles, s, op) ==
    IF acc.err # NoErr \/ acc.panic \/ s = NoStr THEN acc
    ELSE LET w == [acc EXCEPT !.wheres = Append(@, [col |-> "skill", op |-> op,
                                                     p |-> Len(acc.params) + 1])]
         IN IF ~atoi(s).ok THEN [w EXCEPT !.err = ErrAtoi(s)]
            ELSE IF indexInto(quantiles, atoi(s).n).panic THEN [w EXCEPT !.panic = TRUE]
            ELSE [w EXCEPT !.params = Append(@, indexInto(quantiles, atoi(s).n).v)]

\* The block after the hero level: entered iff mode and one of the two indices
\* are given.
skillBounds(bs, args, acc) ==
    IF args["mode"] = NoStr \/ (args["skill_low"] = NoStr /\ args["skill_high"] = NoStr)
    THEN acc
    ELSE IF ~atoi(args["mode"]).ok THEN [acc EXCEPT !.err = ErrAtoi(args["mode"])]
    ELSE IF ~statsOf(bs, args["build"]).ok THEN [acc EXCEPT !.err = ErrUnknownBuild(args["build"])]
    ELSE LET quantiles == quantilesOf(statsOf(bs, args["build"]).modes, atoi(args["mode"]).n)
         IN skillBound(skillBound(acc, quantiles, args["skill_low"], ">="),
                       quantiles, args["skill_high"], "<=")

\* The arguments of a request for winrates with skill bounds: indices "0", "7",
\* "-1" and one that is no number.
SkillArgs ==
    [build : {NoStr, BuildB, NameZ}, hero : {NoStr}, map : {NoStr, MapA}, mode : {NoStr, Mode3, NameZ},
     herolevel : {NoStr}, skill_low : {NoStr, <<48>>, <<55>>, <<45, 49>>, NameZ},
     skill_high : {NoStr, <<48>>, <<55>>, <<45, 49>>, NameZ}]

\* The locals of a call of getWinrates that has not begun.
NoSkillCall ==
    [pc |-> "idle", args |-> [build |-> NoStr, hero |-> NoStr, map |-> NoStr, mode |-> NoStr,
                              herolevel |-> NoStr, skill_low |-> NoStr, skill_high |-> NoStr],
     init |-> NoInit, q |-> [err |-> NoErr, wheres |-> <<>>, params |-> <<>>, panic |-> FALSE],
     nq |-> 0, err |-> NoErr]

\* GetWinrates has taken the snapshot and calls getWinrates.
SkillCall ==
    /\ agg.pc = "idle"
    /\ \E args \in SkillArgs, c \in AggConfigs :
        agg' = [NoSkillCall EXCEPT !.pc = "filters", !.args = args,
                    !.init = buildInit(c, CHOOSE mo \in Orders(DOMAIN c.Map["map"]) : TRUE,
                                          CHOOSE bo \in Orders(DOMAIN c.Builds) : TRUE)]
    /\ UNCHANGED otherFrame

\* The check of build, the loop over the keys and the hero level.
SkillFilters ==
    /\ agg.pc = "filters"
    /\ LET e == requiredArgs("getWinrates", agg.args)
           q == buildQuery("getWinrates", agg.init, agg.args)
       IN agg' = IF e # NoErr THEN [agg EXCEPT !.pc = "done", !.err = e]
                 ELSE IF q.err # NoErr THEN [agg EXCEPT !.pc = "done", !.err = q.err]
                 ELSE [agg EXCEPT !.pc = "skill",
                                  !.q = [err |-> NoErr, wheres |-> q.wheres, params |-> q.params,
                                         panic |-> FALSE]]
    /\ UNCHANGED otherFrame

\* The skill block: an error returns, an index out of range panics, else the
\* query is built.
SkillBlock ==
    /\ agg.pc = "skill"
    /\ LET q == skillBounds(BuildStats, agg.args, agg.q)
       IN agg' = IF q.panic THEN [agg EXCEPT !.pc = "panic", !.q = q]
                 ELSE IF q.err # NoErr THEN [agg EXCEPT !.pc = "done", !.q = q, !.err = q.err]
                 ELSE [agg EXCEPT !.pc = "select", !.q = q]
    /\ UNCHANGED otherFrame

\* return h.countWins(...): the query is sent.
SkillSelect ==
    /\ agg.pc = "select"
    /\ \E ok \in BOOLEAN :
        agg' = [agg EXCEPT !.pc = "done", !.nq = @ + 1, !.err = IF ok THEN NoErr ELSE ErrSelect]
    /\ UNCHANGED otherFrame

SkillInit ==
    /\ now = 0
    /\ enableCache = FALSE
    /\ memCache = <<>>
    /\ dbCache = <<>>
    /\ req = [r \in Reqs |-> IdleReq]
    /\ cronPc = "idle"
    /\ cronUrls = <<>>
    /\ NoRetryCall
    /\ LockIdle
    /\ agg = NoSkillCall
    /\ grp = NoGrp
    /\ chunk = NoChunk

SkillNext ==
    \/ SkillCall
    \/ SkillFilters
    \/ SkillBlock
    \/ SkillSelect

SkillSpec == SkillInit /\ [][SkillNext]_vars

\* ---------------------------------------------------------------- claims

\* r has just taken the step that leaves place pc of wrap.
Leaves(r, pc) == req[r].pc = pc /\ req'[r].pc # pc

\* r's goroutine has just taken the step that leaves place gpc.
GLeaves(r, gpc) == req[r].gpc = gpc /\ req'[r].gpc # gpc

\* C1: CheckCache serves the memory entry of the request's key iff the entry is
\* there and its until is strictly greater than the request's start; otherwise
\* (an entry with until <= start included) it goes on as for a miss and the
\* entry stays in the map; a request served from memory has made no query on
\* the cache table and its handler has not run.
C1_MemoryHitIffUnexpired ==
    /\ [][\A r \in Reqs :
            (Leaves(r, "check") /\ req[r].path # "/api/get-game-data") =>
                LET url == req[r].path
                    live == url \in DOMAIN memCache /\ memCache[url].until > req[r].start
                IN /\ (req'[r].served = "mem") <=> live
                   /\ live => /\ req'[r].resp = okResp(memCache[url].data, memCache[url].gzip)
                              /\ req'[r].pc = "done"
                   /\ ~live => /\ req'[r].resp = NoResp
                               /\ req'[r].pc \in {"dblookup", "handler"}
                   /\ memCache' = memCache]_vars
    /\ [](\A r \in Reqs :
            req[r].served = "mem" =>
                /\ req[r].pc = "done"
                /\ req[r].scanErr = "none"
                /\ ~req[r].called
                /\ req[r].gpc = "none")

\* C1's case: a request has been served the entry of its key, whose until is
\* later than its start.
C1_Witness ==
    \E r \in Reqs :
        /\ req[r].served = "mem"
        /\ req[r].path \in DOMAIN memCache
        /\ memCache[req[r].path].until > req[r].start
        /\ req[r].resp = okResp(memCache[req[r].path].data, memCache[req[r].path].gzip)
        /\ req[r].resp.data # NoData

\* C2: on a DB-cached route, when the memory lookup has missed and the SELECT
\* finds the key's row, CheckCache writes exactly that row's data and gzip to the
\* caller, then stores the same pair in the memory cache with until = start +
\* cacheTime, starts the last_hit goroutine and returns done: the handler does
\* not run.  The SELECT finds the row whenever the row is there and the query
\* does not fail.
C2_PersistentHit ==
    /\ [][\A r \in Reqs :
            /\ Leaves(r, "dblookup") =>
                    LET url == req[r].path
                    IN /\ (url \in DOMAIN dbCache /\ req'[r].scanErr # "error")
                            <=> req'[r].served = "db"
                       /\ req'[r].served = "db" =>
                            /\ req'[r].resp = okResp(dbCache[url].data, dbCache[url].gzip)
                            /\ req'[r].pc = "memfill"
            /\ Leaves(r, "memfill") =>
                    LET url == req[r].path
                    IN /\ url \in DOMAIN memCache'
                       /\ memCache'[url] = [until |-> req[r].start + cacheTime,
                                            data |-> req[r].resp.data,
                                            gzip |-> req[r].resp.gzip]
                       /\ \A u \in DOMAIN memCache \ {url} :
                            u \in DOMAIN memCache' /\ memCache'[u] = memCache[u]
                       /\ req'[r].gpc = "hit"
                       /\ req'[r].pc = "done"
                       /\ req'[r].resp = req[r].resp]_vars
    /\ [](\A r \in Reqs :
            req[r].served = "db" =>
                /\ req[r].path \in {"/api/get-winrates", "/api/get-hero-data"}
                /\ req[r].memRead
                /\ ~req[r].called
                /\ req[r].pc \in {"memfill", "done"}
                /\ req[r].resp.code = 200)

\* C2's case: a request has been served the row another request's upsert left,
\* the memory cache holds the pair for an hour from its start and its last_hit
\* goroutine is running.
C2_Witness ==
    \E r \in Reqs :
        /\ req[r].served = "db"
        /\ req[r].pc = "done"
        /\ req[r].gpc = "hit"
        /\ req[r].path \in DOMAIN memCache
        /\ memCache[req[r].path] = [until |-> req[r].start + cacheTime,
                                    data |-> req[r].resp.data, gzip |-> req[r].resp.gzip]
        /\ req[r].resp.data # NoData

\* What request r was answered with, as the memory entry WriteCache and
\* CheckCache make of it.
EntryOf(r) ==
    [until |-> req[r].start + cacheTime, data |-> req[r].resp.data, gzip |-> req[r].resp.gzip]

\* C3 (as amended): after a miss at both tiers the handler's answer is written
\* to the caller before WriteCache starts, and no cache is written at that step;
\* WriteCache then stores the answer in the memory cache with until = start +
\* cacheTime and, on a DB-cached route, runs the upsert, and always comes to its
\* end; when the upsert succeeds the key's row holds the answer, and when retry
\* gives up the error is only logged and the table is left as it was.
C3_WriteBehind ==
    /\ [](\A r \in Reqs :
            req[r].gpc \in {"wc_mem", "wc_db"} =>
                /\ req[r].pc = "done"
                /\ req[r].served = "handler"
                /\ req[r].resp = okResp(req[r].data, req[r].gzip))
    /\ [][\A r \in Reqs :
            /\ Leaves(r, "write") => memCache' = memCache /\ dbCache' = dbCache
            /\ (GLeaves(r, "wc_mem") /\ req[r].path # "/api/get-game-data") =>
                    /\ req[r].path \in DOMAIN memCache'
                    /\ memCache'[req[r].path] = EntryOf(r)
                    /\ dbCache' = dbCache
                    /\ req'[r].gpc = IF req[r].path = "/api/init" THEN "done" ELSE "wc_db"
            /\ GLeaves(r, "wc_db") =>
                    IF req'[r].gerr = "nil"
                    THEN /\ req[r].path \in DOMAIN dbCache'
                         /\ dbCache'[req[r].path].data = req[r].resp.data
                         /\ dbCache'[req[r].path].gzip = req[r].resp.gzip
                    ELSE dbCache' = dbCache]_vars
    /\ \A r \in Reqs : (req[r].gpc = "wc_mem") ~> (req[r].gpc = "done")

\* C3 as first stated: once WriteCache has ended for a DB-cached route, the
\* key's row has been upserted with the answer.
C3_Original ==
    \A r \in Reqs :
        (/\ req[r].served = "handler"
         /\ req[r].path \in {"/api/get-winrates", "/api/get-hero-data"}
         /\ enableCache
         /\ req[r].gpc = "done")
            => req[r].gerr = "nil"

\* C3's case: a request answered by its handler on a DB-cached route, whose
\* WriteCache has ended with the memory entry and the row holding the answer.
C3_Witness ==
    \E r \in Reqs :
        /\ req[r].served = "handler"
        /\ req[r].scanErr = "ErrNoRows"
        /\ req[r].gpc = "done"
        /\ req[r].gerr = "nil"
        /\ req[r].path \in DOMAIN memCache
        /\ memCache[req[r].path] = EntryOf(r)
        /\ req[r].path \in DOMAIN dbCache
        /\ dbCache[req[r].path].data = req[r].resp.data
        /\ dbCache[req[r].path].gzip = req[r].resp.gzip

\* C4: no route is in both tag tables; a request on a route in neither
\* (/api/get-game-data) reads and writes neither tier, in CheckCache and in
\* WriteCache; a request on the memory-only route (/api/init) makes no query on
\* the cache table and writes no row; neither tier ever holds a key of an
\* untagged route, nor the table a key of the memory-only route.
C4_TierByRouteTag ==
    /\ \A p \in Paths : ~(enableMemCache(p) /\ enableDBCache(p))
    /\ "/api/get-game-data" \notin DOMAIN memCache
    /\ "/api/get-game-data" \notin DOMAIN dbCache
    /\ "/api/init" \notin DOMAIN dbCache
    /\ \A r \in Reqs :
        /\ (req[r].pc # "idle" /\ req[r].path = "/api/get-game-data") =>
                /\ ~req[r].memRead
                /\ req[r].scanErr = "none"
                /\ req[r].served \notin {"mem", "db"}
                /\ req[r].gpc \notin {"wc_db", "hit"}
        /\ (req[r].pc # "idle" /\ req[r].path = "/api/init") =>
                /\ req[r].scanErr = "none"
                /\ req[r].served # "db"
                /\ req[r].pc \notin {"dblookup", "memfill"}
                /\ req[r].gpc \notin {"wc_db", "hit"}

\* C4's case: with the cache enabled, WriteCache has run to its end for a
\* request on /api/get-game-data and for one on /api/init, whose answer is in the
\* memory cache.
C4_Witness ==
    \E r1, r2 \in Reqs :
        /\ enableCache
        /\ req[r1].path = "/api/get-game-data"
        /\ req[r1].served = "handler"
        /\ req[r1].gpc = "done"
        /\ req[r2].path = "/api/init"
        /\ req[r2].served = "handler"
        /\ req[r2].gpc = "done"
        /\ "/api/init" \in DOMAIN memCache

\* C5: the outcome of CheckCache's SELECT depends on the presence of the key's
\* row alone, never on its until or last_hit: unless the query itself fails, a
\* row that is there is served (whatever its until: NULL, before or after the
\* request's start), and only an absent row gives ErrNoRows.
C5_LookupIgnoresTimestamps ==
    [][\A r \in Reqs :
        Leaves(r, "dblookup") =>
            LET url == req[r].path
                present == url \in DOMAIN dbCache
            IN /\ req'[r].scanErr \in {"nil", "ErrNoRows", "error"}
               /\ req'[r].scanErr = "nil" => present
               /\ req'[r].scanErr = "ErrNoRows" => ~present
               /\ req'[r].scanErr = "nil" =>
                    /\ req'[r].served = "db"
                    /\ req'[r].resp = okResp(dbCache[url].data, dbCache[url].gzip)]_vars

\* C5's case: a request has just been served a row whose until had passed
\* before the request started.
C5_Witness ==
    \E r \in Reqs :
        /\ req[r].pc = "memfill"
        /\ req[r].served = "db"
        /\ req[r].path \in DOMAIN dbCache
        /\ ~dbCache[req[r].path].until.null
        /\ dbCache[req[r].path].until.t < req[r].start
        /\ req[r].resp = okResp(dbCache[req[r].path].data, dbCache[req[r].path].gzip)

\* C6 (as amended): when the upsert of WriteCache succeeds, the key's row is,
\* at that moment, exactly (data, gzip, last_hit = start, until = NULL) of the
\* written answer, whether or not there was a row before and whatever its until
\* was, and no other row changes; when retry gives up, WriteCache ends with the
\* table unchanged.
C6_UpsertResetsUntil ==
    [][\A r \in Reqs :
        GLeaves(r, "wc_db") =>
            LET url == req[r].path
            IN IF req'[r].gerr = "nil"
               THEN /\ DOMAIN dbCache' = DOMAIN dbCache \cup {url}
                    /\ dbCache'[url] = [data |-> req[r].resp.data, gzip |-> req[r].resp.gzip,
                                        last_hit |-> At(req[r].start), until |-> Null]
                    /\ \A u \in DOMAIN dbCache \ {url} : dbCache'[u] = dbCache[u]
               ELSE dbCache' = dbCache]_vars

\* C6 as first stated: at the step that ends WriteCache on a DB-cached route the
\* key's row holds the written answer with until = NULL.
C6_Original ==
    [][\A r \in Reqs :
        GLeaves(r, "wc_db") =>
            /\ req[r].path \in DOMAIN dbCache'
            /\ dbCache'[req[r].path].data = req[r].resp.data
            /\ dbCache'[req[r].path].gzip = req[r].resp.gzip
            /\ dbCache'[req[r].path].until.null]_vars

\* C6's case: two requests for one key were both answered by their handlers
\* with different answers, both upserts succeeded, and the row is the later
\* one's: it replaced the row that was there.
C6_Witness ==
    \E r1, r2 \in Reqs :
        /\ r1 # r2
        /\ req[r1].path = req[r2].path
        /\ req[r1].gpc = "done" /\ req[r1].gerr = "nil" /\ req[r1].served = "handler"
        /\ req[r2].gpc = "done" /\ req[r2].gerr = "nil" /\ req[r2].served = "handler"
        /\ req[r1].data # req[r2].data
        /\ req[r1].start # req[r2].start
        /\ req[r2].path \in DOMAIN dbCache
        /\ dbCache[req[r2].path] = [data |-> req[r2].data, gzip |-> req[r2].gzip,
                                    last_hit |-> At(req[r2].start), until |-> Null]

\* The key's row is new, or its last_hit has changed, in this step.
LastHitSet(u) ==
    /\ u \in DOMAIN dbCache'
    /\ u \in DOMAIN dbCache => dbCache'[u].last_hit # dbCache[u].last_hit

\* r, served from the table, has just run its last_hit update with success.
HitUpdate(r, u) ==
    /\ req[r].path = u
    /\ req[r].served = "db"
    /\ GLeaves(r, "hit")
    /\ req'[r].gerr = "nil"
    /\ dbCache'[u].last_hit = At(req[r].start)

\* r, answered by its handler, has just run WriteCache's upsert with success.
MissUpsert(r, u) ==
    /\ req[r].path = u
    /\ req[r].served = "handler"
    /\ GLeaves(r, "wc_db")
    /\ req'[r].gerr = "nil"
    /\ dbCache'[u].last_hit = At(req[r].start)

PayloadChanged(u) ==
    \/ u \notin DOMAIN dbCache'
    \/ dbCache'[u].data # dbCache[u].data
    \/ dbCache'[u].gzip # dbCache[u].gzip

\* C8: the data and gzip of a key's row change, or the row goes, only in an
\* upsert of that key, a revalidation of that key by cron or cron's delete:
\* no last_hit update and no request or revalidation of another key touches
\* them; and a lookup that finds the row returns the data and gzip it holds.  So
\* every lookup between an upsert and the next such write returns what was
\* upserted.
C8_CoherenceWindow ==
    /\ [][\A u \in DOMAIN dbCache :
            PayloadChanged(u) =>
                \/ \E r \in Reqs : req[r].path = u /\ GLeaves(r, "wc_db")
                \/ cronPc = "loop" /\ Head(cronUrls) = u /\ cronUrls' # cronUrls
                \/ cronPc = "idle" /\ cronPc' = "select"]_vars
    /\ [][\A r \in Reqs :
            (Leaves(r, "dblookup") /\ req'[r].scanErr = "nil") =>
                /\ req'[r].resp.data = dbCache[req[r].path].data
                /\ req'[r].resp.gzip = dbCache[req[r].path].gzip]_vars

\* C8's case: a request has been served from the table exactly what another
\* request's upsert wrote, its last_hit update has run, and cron is in the
\* middle of a run.
C8_Witness ==
    \E r1, r2 \in Reqs :
        /\ req[r1].path = req[r2].path
        /\ req[r1].served = "handler" /\ req[r1].gpc = "done" /\ req[r1].gerr = "nil"
        /\ req[r2].served = "db" /\ req[r2].gpc = "done" /\ req[r2].gerr = "nil"
        /\ req[r2].resp = okResp(req[r1].data, req[r1].gzip)
        /\ req[r2].path \in DOMAIN dbCache
        /\ dbCache[req[r2].path].data = req[r1].data
        /\ dbCache[req[r2].path].gzip = req[r1].gzip
        /\ cronPc # "idle"

\* C9: the last_hit goroutine exists only for a request already answered from
\* the table; its step, whether retry returns nil, a non-retryable error or
\* 'retry limit exhausted', changes neither the answer nor the memory cache nor
\* anything else of the request, and on an error it changes nothing in the table
\* either: the error is logged.
C9_MarkHitFireAndForget ==
    /\ [](\A r \in Reqs :
            req[r].gpc = "hit" =>
                /\ req[r].pc = "done"
                /\ req[r].served = "db"
                /\ req[r].resp = okResp(req[r].data, req[r].gzip)
                /\ req[r].resp.data # NoData)
    /\ [][\A r \in Reqs :
            GLeaves(r, "hit") =>
                /\ req'[r].gpc = "done"
                /\ req'[r].gerr \in {"nil", "fatal", "retry limit exhausted"}
                /\ req'[r] = [req[r] EXCEPT !.gpc = "done", !.gerr = req'[r].gerr]
                /\ memCache' = memCache
                /\ req'[r].gerr # "nil" => dbCache' = dbCache]_vars

\* C9's case: the last_hit update of a request served from the table has
\* exhausted its retries; the request keeps its answer and the memory cache its
\* entry.
C9_Witness ==
    \E r \in Reqs :
        /\ req[r].served = "db"
        /\ req[r].gpc = "done"
        /\ req[r].gerr = "retry limit exhausted"
        /\ req[r].resp = okResp(req[r].data, req[r].gzip)
        /\ req[r].path \in DOMAIN memCache
        /\ memCache[req[r].path] = EntryOf(r)

\* C10: a request whose handler (or the encoding of its result) fails is
\* answered with an error, starts no WriteCache and has written nothing to
\* either cache: the failing step changes no cache, and the request takes no
\* further step.
C10_ErrorWritesNothing ==
    /\ [](\A r \in Reqs :
            req[r].served = "error" =>
                /\ req[r].resp = httpError
                /\ req[r].called
                /\ req[r].pc = "done"
                /\ req[r].gpc = "none"
                /\ req[r].gerr = "none")
    /\ [][\A r \in Reqs :
            /\ (Leaves(r, "handler") /\ req'[r].served = "error") =>
                    memCache' = memCache /\ dbCache' = dbCache
            /\ req[r].served = "error" => req'[r] = req[r]]_vars

\* C10's case: with the cache enabled, a request on a DB-cached route missed
\* both tiers, its handler failed, and neither tier holds its key.
C10_Witness ==
    \E r \in Reqs :
        /\ enableCache
        /\ req[r].served = "error"
        /\ req[r].scanErr = "ErrNoRows"
        /\ req[r].resp.code = 500
        /\ req[r].path \notin DOMAIN memCache
        /\ req[r].path \notin DOMAIN dbCache

\* C12: in every reachable state, gunzip of the gzip copy of every memory-cache
\* entry and of every row of the cache table is the entry's (the row's) data,
\* whatever WriteCache, the refill after a hit on the table and cron's
\* recomputation have written.
C12_GzipRoundTrip ==
    /\ \A u \in DOMAIN memCache : Gunzip(memCache[u].gzip) = memCache[u].data
    /\ \A u \in DOMAIN dbCache : Gunzip(dbCache[u].gzip) = dbCache[u].data

\* C12's case: cron has recomputed a row WriteCache had written, a later request
\* was served that row and refilled the memory cache with it; both copies of
\* both entries agree.
C12_Witness ==
    \E r \in Reqs :
        /\ req[r].served = "db"
        /\ req[r].pc = "done"
        /\ req[r].path \in DOMAIN memCache
        /\ req[r].path \in DOMAIN dbCache
        /\ ~dbCache[req[r].path].until.null
        /\ memCache[req[r].path].data = dbCache[req[r].path].data
        /\ memCache[req[r].path].data # NoData
        /\ Gunzip(memCache[req[r].path].gzip) = memCache[req[r].path].data
        /\ Gunzip(dbCache[req[r].path].gzip) = dbCache[req[r].path].data

\* The errors retryable(err) is meant to accept: postgres code 40001, wrapped or
\* not, and a reset connection.
RetryableErrs == {PqError("40001"), Wrap(PqError("40001")), ErrReset}

\* The outcome of a call of fn as retry(outs) of the cache model names it.
Outcome(e) == IF e = Nil THEN "ok" ELSE IF e \in RetryableErrs THEN "retryable" ELSE "fatal"

\* C13: a call of retry comes to its end; fn is called at least once and at most
\* 10 times; every call of fn but the last returned a retryable error (code
\* 40001 or a reset connection); when 10 calls have all failed retryably retry
\* returns 'retry limit exhausted', which none of the calls returned; after a
\* nil no call follows and retry returns nil; and the result is the one
\* retry(outs) gives for the calls' outcomes.
C13_RetryBounded ==
    /\ (rtPc = "test") ~> (rtPc = "done")
    /\ [](Len(rtHist) <= 10)
    /\ [](rtPc = "done" => Len(rtHist) >= 1)
    /\ [](\A i \in 1..(Len(rtHist) - 1) : rtHist[i] \in RetryableErrs)
    /\ [](rtPc \in {"test", "fn"} => \A i \in 1..Len(rtHist) : rtHist[i] \in RetryableErrs)
    /\ []((rtPc = "done" /\ Len(rtHist) = 10 /\ rtHist[10] \in RetryableErrs) =>
            /\ rtRet = ErrRetryLimit
            /\ \A i \in 1..10 : rtHist[i] # rtRet)
    /\ []((rtPc = "done" /\ rtHist[Len(rtHist)] = Nil) => rtRet = Nil)
    /\ []((rtPc = "done" /\ rtRet = Nil) => rtHist[Len(rtHist)] = Nil)
    /\ [](rtPc = "done" =>
            retry([i \in 1..Len(rtHist) |-> Outcome(rtHist[i])])
                = [err |-> IF rtRet = Nil THEN "nil"
                           ELSE IF rtRet = rtHist[Len(rtHist)] THEN "fatal"
                           ELSE "retry limit exhausted",
                   calls |-> Len(rtHist)])

\* C13's case: a statement has failed retryably 10 times and retry has returned
\* 'retry limit exhausted'.
C13_Witness ==
    /\ rtCaller = "exec"
    /\ rtPc = "done"
    /\ Len(rtHist) = 10
    /\ \A i \in 1..10 : rtHist[i] \in RetryableErrs
    /\ rtHist[1] # rtHist[10]
    /\ rtRet = ErrRetryLimit

\* C14: when a call of fn returns a non-retryable error, it is the last call:
\* retry returns that very error (not its cause, not the limit error) and fn is
\* not called again; so with the error at the k-th call fn has run k times.
C14_FatalReturnedAtOnce ==
    /\ [](\A k \in 1..Len(rtHist) :
            (rtHist[k] # Nil /\ rtHist[k] \notin RetryableErrs) =>
                /\ k = Len(rtHist)
                /\ rtPc \in {"check", "done"}
                /\ rtPc = "done" => rtRet = rtHist[k])
    /\ [][rtPc = "done" => UNCHANGED <<rtHist, rtRet, rtPc, rtCount>>]_vars

\* C14's case: nine retryable failures, then an expired deadline (a wrapped
\* error) at the tenth call, which retry has returned as it was.
C14_Witness ==
    /\ rtPc = "done"
    /\ Len(rtHist) = 10
    /\ rtHist[10] = ErrDeadline
    /\ rtRet = ErrDeadline
    /\ rtRet # Cause(rtRet)

\* C15: in a call of txn every attempt starts with BeginTxx and with no
\* transaction of an earlier attempt open; fn runs on the transaction begun in
\* its attempt; Commit is called iff fn returned nil in that attempt, and
\* Rollback whenever fn returned an error, before the closure returns to retry;
\* a transaction whose fn failed is never committed; at most one transaction of
\* the call is open at any time.
C15_TxnPerAttempt ==
    /\ [](txOpen \in {0, 1})
    /\ [](txOpen = 1 <=> txState = "open")
    /\ [](txState = "open" <=>
            (rtCaller = "txn" /\ rtPc = "fn" /\ txPc \in {"fn", "commit", "rollback"}))
    /\ [](txState = "committed" => txFnErr = Nil)
    /\ []((rtCaller = "txn" /\ rtPc = "check" /\ txFnErr # Nil) =>
            txState = "rolledback" /\ rtErr = txFnErr)
    /\ [][(rtCaller = "txn" /\ rtPc = "test" /\ rtPc' = "fn") =>
            txPc' = "begin" /\ txState' = "none" /\ txOpen' = 0]_vars
    /\ [][(rtCaller = "txn" /\ txPc = "fn" /\ txPc' # "fn") =>
            /\ txFnErr' = Nil <=> txPc' = "commit"
            /\ txFnErr' # Nil <=> txPc' = "rollback"]_vars
    /\ [][(txState # txState' /\ txState' \in {"committed", "aborted"}) =>
            txPc = "commit" /\ txFnErr = Nil /\ txState = "open"]_vars
    /\ [][(txState # txState' /\ txState' = "rolledback") =>
            txPc = "rollback" /\ txFnErr # Nil /\ txState = "open"]_vars

\* C15's case: the second attempt of a call of txn has committed, after a first
\* attempt that failed retryably.
C15_Witness ==
    /\ rtCaller = "txn"
    /\ rtPc = "done"
    /\ Len(rtHist) = 2
    /\ rtHist[1] \in RetryableErrs
    /\ rtRet = Nil
    /\ txState = "committed"
    /\ txOpen = 0

\* The memory entry worker t's CheckCache or WriteCache writes.
TripleOf(t) == [until |-> th[t].start + cacheTime, data |-> th[t].data, gzip |-> th[t].gzip]

\* t has written, or is writing, its entry.
HasWritten(t) == th[t].data # NoData /\ th[t].pc \in {"hit_db", "wc_db", "done"}

\* C11: with requests running concurrently for one key, whenever no request is
\* inside its write of the map (the writes go field by field under h.mu.Lock),
\* the key's entry is exactly the (until, data, gzip) one CheckCache or WriteCache
\* call has written, never fields of two calls; and what a CheckCache read from
\* the map and served is the pair of one call.
C11_EntryIsOneWrite ==
    /\ mu.w \notin Workers =>
            \A u \in DOMAIN memCache :
                \E t \in Workers : HasWritten(t) /\ memCache[u] = TripleOf(t)
    /\ \A t \in Workers :
            th[t].resp.code = 200 =>
                \E t2 \in Workers :
                    /\ th[t2].data # NoData
                    /\ th[t].resp = okResp(th[t2].data, th[t2].gzip)

\* C11's case: two requests for the key both missed, both handlers answered
\* (with different answers), both WriteCache calls have written the map, and the
\* entry is the triple of one of them.
C11_Witness ==
    /\ th["w1"].pc = "done" /\ th["w2"].pc = "done"
    /\ th["w1"].resp = okResp(resultToBytes(1).data, resultToBytes(1).gzip)
    /\ th["w2"].resp = okResp(resultToBytes(2).data, resultToBytes(2).gzip)
    /\ WorkerUrl \in DOMAIN memCache
    /\ memCache[WorkerUrl] \in {TripleOf("w1"), TripleOf("w2")}
    /\ mu.w = "none"

\* The places where ClearCache has dropped the map and its refresh of the
\* snapshot has not returned.
ClearWindow == {"cl_delete", "ui_get", "ui_lock", "ui_maps", "ui_builds", "ui_sort", "ui_lookups"}

\* C16 (as amended): ClearCache holds the exclusive lock from the drop of the
\* map to the end of its DELETE (retries included), and meanwhile the map stays
\* empty and no other goroutine takes or holds the lock; it then releases the
\* lock and calls updateInit, whatever the DELETE returned (on an error, which
\* is logged, the table is as it was); updateInit reads the config without the
\* lock and takes it again for the swap.
C16_ClearCacheLocking ==
    /\ [](th["clear"].pc = "cl_delete" =>
            /\ mu = [w |-> "clear", r |-> {}]
            /\ memCache = <<>>)
    /\ [](th["clear"].pc \in {"ui_get", "ui_lock", "done"} => mu.w # "clear")
    /\ [](th["clear"].pc \in {"ui_maps", "ui_builds", "ui_sort", "ui_lookups"} =>
            mu = [w |-> "clear", r |-> {}])
    /\ [][(th["clear"].pc = "cl_delete" /\ th'["clear"].pc = "cl_delete") =>
            mu' = mu /\ memCache' = memCache /\ heap' = heap /\ muInit' = muInit]_vars
    /\ [][(th["clear"].pc = "cl_delete" /\ th'["clear"].pc # "cl_delete") =>
            /\ th'["clear"].pc = "ui_get"
            /\ mu'.w = "none"
            /\ th'["clear"].err \in {"nil", "fatal", "retry limit exhausted"}
            /\ dbCache' = IF th'["clear"].err = "nil" THEN <<>> ELSE dbCache]_vars

\* C16 as first stated: from the drop of the map until its refresh has
\* completed ClearCache holds the exclusive lock.
C16_Original == th["clear"].pc \in ClearWindow => mu.w = "clear"

\* C16's case: the DELETE of ClearCache has exhausted its retries and left the
\* row; ClearCache has released the lock and is in updateInit, while another
\* goroutine holds the lock.
C16_Witness ==
    /\ th["clear"].pc = "ui_get"
    /\ th["clear"].err = "retry limit exhausted"
    /\ dbCache # <<>>
    /\ memCache = <<>>
    /\ (mu.w = "loop" \/ mu.r # {})

\* Goroutine t is at a call to the database.
InFlight(t) == th[t].pc \in {"cc_select", "hit_db", "query", "wc_db", "ui_get", "cl_delete"}

\* C17 (as amended): a goroutine holds h.mu exclusively exactly while it stores
\* the fields of a map entry (CheckCache, WriteCache), builds the snapshot
\* (updateInit), sweeps the map (the ticker goroutine) or, in ClearCache, after
\* the drop of the map and during the DELETE; it holds it shared exactly at the
\* map read of CheckCache and the copy of getInit.  So no goroutine holds the
\* lock during a call of its own to the database, except ClearCache during its
\* retried DELETE.
C17_LockOnlyAroundMemory ==
    /\ \A t \in Goroutines :
        /\ mu.w = t =>
                th[t].pc \in {"cf_data", "cf_gzip", "wc_data", "wc_gzip", "ui_maps", "ui_builds",
                              "ui_sort", "ui_lookups", "sweep", "cl_delete"}
        /\ th[t].pc \in {"cf_data", "cf_gzip", "wc_data", "wc_gzip", "ui_maps", "ui_builds",
                          "ui_sort", "ui_lookups", "sweep", "cl_delete"} => mu.w = t
        /\ t \in mu.r <=> th[t].pc \in {"cc_read", "gi_read"}
        /\ (InFlight(t) /\ th[t].pc # "cl_delete") => (mu.w # t /\ t \notin mu.r)
    /\ mu.w # "none" => mu.r = {}

\* C17 as first stated: no goroutine holds the lock, shared or exclusive, while
\* a call of its own to the database is in flight.
C17_Original == \A t \in Goroutines : InFlight(t) => (mu.w # t /\ t \notin mu.r)

\* C17's case: a worker is in its UPSERT and another in its SELECT, neither
\* holding the lock, while the ticker goroutine sweeps the map under the lock.
C17_Witness ==
    /\ th["w1"].pc = "wc_db"
    /\ th["w2"].pc = "cc_select"
    /\ th["loop"].pc = "sweep"
    /\ mu = [w |-> "loop", r |-> {}]

\* The elements of sequence q.
Elems(q) == {q[i] : i \in 1..Len(q)}

\* Snapshot d has everything updateInit builds from d's own config blob: one
\* map name per configured map, one build per configured build with the blob's
\* dates, one lookup per group of the blob, inverting the group's table.
Complete(d) ==
    /\ d.config \in Configs
    /\ Len(d.Maps) = Cardinality(DOMAIN d.config.Map["map"])
    /\ Elems(d.Maps) = DOMAIN d.config.Map["map"]
    /\ Len(d.Builds) = Cardinality(DOMAIN d.config.Builds)
    /\ {b.ID : b \in Elems(d.Builds)} = DOMAIN d.config.Builds
    /\ \A b \in Elems(d.Builds) :
            b.Start = d.config.Builds[b.ID].Start /\ b.Finish = d.config.Builds[b.ID].End
    /\ DOMAIN d.lookups = DOMAIN d.config.Map
    /\ \A g \in DOMAIN d.lookups :
            \A n \in DOMAIN d.config.Map[g] : d.lookups[g][d.config.Map[g][n]] = n

\* C18: the snapshot a getInit call has returned is complete, built from one
\* config blob, whatever updateInit calls ran beside it, and what the caller
\* holds (the object its copy refers to) stays equal to what it was given for
\* as long as the caller uses it.
C18_SnapshotCompleteAndFrozen ==
    \A t \in Workers :
        th[t].init # 0 =>
            /\ Complete(th[t].seen)
            /\ heap[th[t].init] = th[t].seen

\* C18's case: a request took the snapshot of the old config; since then the
\* config changed and an updateInit is in the middle of building the next
\* snapshot, which so far has its maps but no builds.
C18_Witness ==
    /\ th["w1"].init # 0
    /\ th["w1"].pc = "query"
    /\ th["w1"].seen.config = ConfigOld
    /\ th["loop"].pc = "ui_builds"
    /\ muInit # th["w1"].init
    /\ heap[muInit].config = ConfigNew
    /\ heap[muInit].Builds = <<>>

\* Adjacent entries go from the greater identifier to the smaller one, in Go's
\* order of strings.
NewestFirst(builds) ==
    \A i \in 1..(Len(builds) - 1) : StrLess(builds[i + 1].ID, builds[i].ID)

IndexOf(builds, id) ==
    IF \E k \in 1..Len(builds) : builds[k].ID = id
    THEN CHOOSE k \in 1..Len(builds) : builds[k].ID = id
    ELSE 0

AggPast(pcs) == agg.pc \notin ({"idle"} \cup pcs)

\* C21: in the snapshot a call works with, for every group of the config and
\* every display name of the group, the lookup updateInit built takes the
\* name's code back to the name; and the code a call has bound for an argument
\* is taken back to the argument by the lookup.
C21_NameCodeRoundTrip ==
    agg.pc # "idle" =>
        /\ \A g \in DOMAIN agg.init.config.Map :
            \A name \in DOMAIN agg.init.config.Map[g] :
                lookupName(agg.init, g, mapCode(agg.init.config.Map[g], name)) = name
        /\ (agg.fn # "GetCompareHero" /\ agg.q.err = NoErr) =>
            \A i \in 1..Len(agg.q.wheres) :
                agg.q.wheres[i].col \in DOMAIN agg.init.config.Map =>
                    lookupName(agg.init, agg.q.wheres[i].col, agg.q.params[agg.q.wheres[i].p])
                        = agg.args[agg.q.wheres[i].col]

\* C21's case: getBuildWinrates has bound the code "2" for the map "a" and
\* the lookup of group map gives "a" for "2".
C21_Witness ==
    /\ agg.pc = "select"
    /\ agg.fn = "getBuildWinrates"
    /\ agg.args["map"] = MapA
    /\ \E i \in 1..Len(agg.q.wheres) :
        /\ agg.q.wheres[i].col = "map"
        /\ agg.q.params[agg.q.wheres[i].p] = "2"
    /\ lookupName(agg.init, "map", "2") = MapA
    /\ Cardinality(DOMAIN agg.init.lookups["talent"]) = 3

\* The keys of the call whose argument is set and is no name of the key's group.
AbsentKeys ==
    { i \in 1..Len(filterKeys(agg.fn)) :
        LET key == filterKeys(agg.fn)[i] IN
        /\ key \in DOMAIN agg.init.config.Map
        /\ agg.args[key] # NoStr
        /\ agg.args[key] \notin DOMAIN agg.init.config.Map[key] }

FirstAbsent == CHOOSE i \in AbsentKeys : \A j \in AbsentKeys : i <= j

C23_RequiredArgs ==
    (agg.fn \in {"getBuildWinrates", "getWinrates"} /\ AggPast({"check"})) =>
        LET missing == IF agg.args["build"] = NoStr THEN "build"
                       ELSE IF agg.fn = "getBuildWinrates" /\ agg.args["hero"] = NoStr THEN "hero"
                       ELSE ""
        IN IF missing # ""
           THEN /\ agg.pc = "done"
                /\ agg.ret = [NoRet EXCEPT !.err = ErrRequired(missing)]
                /\ agg.nq = 0
           ELSE agg.ret.err.msg # "required"

\* C23's case: getBuildWinrates with a build and no hero has returned "hero
\* required".
C23_Witness ==
    /\ agg.pc = "done"
    /\ agg.fn = "getBuildWinrates"
    /\ agg.args["build"] = BuildB
    /\ agg.args["hero"] = NoStr
    /\ agg.ret.err = ErrRequired("hero")
    /\ agg.nq = 0

\* C24: every query the three functions run has a predicate hero_level >= $n,
\* and the value bound to $n is never below the default, 5.
C24_FloorNotLowered ==
    (agg.pc = "select" \/ (agg.pc # "idle" /\ agg.nq > 0)) =>
        \E i \in 1..Len(agg.q.wheres) :
            /\ agg.q.wheres[i].col = "hero_level"
            /\ agg.q.wheres[i].op = ">="
            /\ levelValue(agg.q.params[agg.q.wheres[i].p]) >= levelValue(defaultHerolevel)

\* The sum of the counts of a set of rows.
RECURSIVE SumCounts(_)
SumCounts(S) ==
    IF S = {} THEN 0
    ELSE LET r == CHOOSE x \in S : TRUE IN r.Count + SumCounts(S \ {r})

\* The talent sets of the rows, and the display names of a talent set.
CombosOf(rows) == {r.Talents : r \in rows}
NamesOf(k) == [i \in 1..Len(k) |-> lookupName(agg.init, "talent", k[i])]
GamesOf(rows, k) == SumCounts({r \in rows : r.Talents = k})
WinsOf(rows, k) == SumCounts({r \in rows : r.Talents = k /\ r.Winner})

\* getBuildWinrates has returned its lists.
AggReturned == agg.pc = "done" /\ agg.fn = "getBuildWinrates" /\ agg.ret.err = NoErr /\ agg.nq = 1

\* C25: when getBuildWinrates returns, no talent combination whose games (the
\* sum of its rows' counts) are at most popularGameLimit is in winningBuilds,
\* and every entry of winningBuilds has a win rate above 0 and more than
\* popularGameLimit games.
C25_PopularityFloor ==
    AggReturned =>
        /\ \A k \in CombosOf(agg.data) :
                GamesOf(agg.data, k) <= popularGameLimit =>
                    \A i \in 1..Len(agg.ret.winning) : agg.ret.winning[i].Build # NamesOf(k)
        /\ \A i \in 1..Len(agg.ret.winning) :
                /\ agg.ret.winning[i].Winrate.n > 0
                /\ agg.ret.winning[i].Total > popularGameLimit

\* C25's case: one combination won all of its 3 games, another won 11 of 18:
\* winningBuilds holds the second only.
C25_Witness ==
    /\ AggReturned
    /\ GamesOf(agg.data, ComboA) = 3
    /\ WinsOf(agg.data, ComboA) = 3
    /\ GamesOf(agg.data, ComboB) = 18
    /\ Len(agg.ret.winning) = 1
    /\ agg.ret.winning[1].Build = NamesOf(ComboB)
    /\ agg.ret.winning[1].Winrate = [n |-> 11, d |-> 18]

\* The display names of the talents at tier i of the rows.
TierNames(rows, i) ==
    {lookupName(agg.init, "talent", r.Talents[i]) : r \in {x \in rows : i <= Len(x.Talents)}}

\* C26: when getBuildWinrates returns, for every tier i of 1..7 tally[i] has
\* exactly the talents that rows have at position i, each with Wins the sum of
\* the counts of its winner rows and Losses the sum for the other rows; there
\* is one build per talent combination, with Total the sum of the counts of its
\* rows and Winrate wins/total when the wins exceed popularGameLimit, else 0.
C26_FoldRows ==
    AggReturned =>
        /\ DOMAIN agg.ret.tally = 1..7
        /\ \A i \in 1..7 :
            /\ DOMAIN agg.ret.tally[i] = TierNames(agg.data, i)
            /\ \A t \in TierNames(agg.data, i) :
                LET at == {r \in agg.data : i <= Len(r.Talents)
                                /\ lookupName(agg.init, "talent", r.Talents[i]) = t}
                IN /\ agg.ret.tally[i][t].Wins = SumCounts({r \in at : r.Winner})
                   /\ agg.ret.tally[i][t].Losses = SumCounts({r \in at : ~r.Winner})
        /\ Len(agg.builds) = Cardinality(CombosOf(agg.data))
        /\ \A k \in CombosOf(agg.data) :
            \E j \in 1..Len(agg.builds) :
                /\ agg.builds[j].Build = NamesOf(k)
                /\ agg.builds[j].Total = GamesOf(agg.data, k)
                /\ agg.builds[j].Winrate =
                        IF WinsOf(agg.data, k) > popularGameLimit
                        THEN [n |-> WinsOf(agg.data, k), d |-> GamesOf(agg.data, k)]
                        ELSE zeroRate

\* C26's case: the rows are (t1,t2 won, 3) and (t1,t2 lost, 7): tier 1 has t1
\* with 3 wins and 7 losses, tier 2 has t2 with the same, and the one build has
\* Total 10 and Winrate 0.
C26_Witness ==
    /\ AggReturned
    /\ agg.init.config = AggConfigA
    /\ agg.data = {[Count |-> 3, Talents |-> ComboA, Winner |-> TRUE],
                   [Count |-> 7, Talents |-> ComboA, Winner |-> FALSE]}
    /\ agg.ret.tally[1] = (Talent1 :> [Wins |-> 3, Losses |-> 7])
    /\ agg.ret.tally[2] = (Talent2 :> [Wins |-> 3, Losses |-> 7])
    /\ agg.ret.tally[3] = <<>>
    /\ agg.builds = <<[Build |-> <<Talent1, Talent2>>, Total |-> 10, Winrate |-> zeroRate]>>

\* C30: a second run of getBuildWinrates with the same arguments and snapshot
\* over the same rows returns what the first run returned: the same tallies and
\* the same popularBuilds and winningBuilds, in the same order.
C30_Deterministic ==
    (AggReturned /\ agg.run = 2) => agg.ret = agg.first

\* C27: in the three handlers, when the computation for the current build
\* has succeeded and the one for the previous build has failed, the request is
\* answered 200 with the current result and no previous result.
C27_PreviousFailureTolerated ==
    (grp.pc = "responded" /\ grp.br["cur"] = "ok" /\ grp.br["prev"] = "failed") =>
        grp.resp = [code |-> 200, Current |-> "result", Previous |-> "nil"]

\* Some sub-query of the request has failed.
AnySubFailed ==
    grp.pc # "idle" /\ \E b \in Branches : \E s \in SubsOf(grp.kind) : Started(grp, b) /\ grp.sub[b][s] = "failed"

\* C28: the handler returns only when every sub-query it started has ended,
\* with an error if and only if one of them failed, the error of the one that
\* failed first; and a sub-query that has
\* failed is waited for and reported through the group: the request goes on to
\* return, it does not end abnormally.
C28_JoinedBeforeResponse ==
    /\ grp.pc \in {"returned", "responded"} =>
        /\ \A b \in Branches : SubsDone(grp, b) /\ grp.br[b] # "running"
        /\ AnySubFailed <=> grp.err # "nil"
        /\ grp.err # "nil" => grp.err = grp.firstFailed
    /\ AnySubFailed => grp.pc \in {"wait", "returned", "responded"}

\* The chunks sent for team t, in order.
isTeam0(c) == c.team = 0
isTeam1(c) == c.team = 1
SentFor(t) == IF t = 0 THEN SelectSeq(chunk.sent, isTeam0) ELSE SelectSeq(chunk.sent, isTeam1)

\* ceil(n / 1000)
ChunksNeeded(n) == (n + chunkLimit - 1) \div chunkLimit

\* The chunks q cover the places 1..upto, each place once, in chunks of at most
\* chunkLimit ids.
Covers(q, upto) ==
    /\ \A k \in 1..Len(q) :
        /\ q[k].lo = (IF k = 1 THEN 1 ELSE q[k - 1].hi + 1)
        /\ q[k].hi >= q[k].lo
        /\ q[k].hi - q[k].lo + 1 <= chunkLimit
    /\ (IF q = <<>> THEN 0 ELSE q[Len(q)].hi) = upto

\* C29: when GetCompareHero returns a comparison, getGames has sent for each
\* team ceil(n/1000) queries of at most 1000 ids, every id of the team in
\* exactly one of them; each turn of the loop sends ids not sent before and
\* leaves fewer, and the call ends; if a query failed, the call returns the
\* error and no comparison, and sends nothing more.
C29_ChunkedQueries ==
    /\ [](chunk.pc # "idle" =>
            /\ \A t \in {0, 1} : \E upto \in 0..chunk.n[t + 1] : Covers(SentFor(t), upto)
            /\ Len(SentFor(0)) <= ChunksNeeded(chunk.n[1])
            /\ Len(SentFor(1)) <= ChunksNeeded(chunk.n[2]))
    /\ []((chunk.pc = "done" /\ chunk.ret.err = "nil") =>
            /\ chunk.ret.result = "comparison"
            /\ \A t \in {0, 1} :
                /\ Covers(SentFor(t), chunk.n[t + 1])
                /\ Len(SentFor(t)) = ChunksNeeded(chunk.n[t + 1])
            /\ chunk.merged = Len(chunk.sent))
    /\ []((chunk.pc = "done" /\ chunk.ret.err # "nil") =>
            /\ chunk.ret.result = "nil"
            /\ chunk.merged = Len(chunk.sent) - 1)
    /\ [][chunk.pc = "done" => chunk' = chunk]_vars
    /\ (chunk.pc = "loop") ~> (chunk.pc = "done")

\* C29's case: team 0 has 2001 ids and team 1 has 1001; the comparison was
\* returned after queries with 1000, 1000 and 1 ids and with 1000 and 1 ids.
C29_Witness ==
    /\ chunk.pc = "done"
    /\ chunk.ret = [result |-> "comparison", err |-> "nil"]
    /\ chunk.n = <<MaxIds, chunkLimit + 1>>
    /\ Len(SentFor(0)) = ChunksNeeded(MaxIds)
    /\ Len(SentFor(1)) = 2
    /\ SentFor(1)[2].hi - SentFor(1)[2].lo + 1 = 1

\* What retry returns for a statement that was sent to the database.
RetryVerdicts == { retry(outs).err : outs \in Attempts }

\* C31: a request served from the persistent store has its last_hit update
\* started, and one answered by its handler (the cache being enabled) has
\* WriteCache started; the statement of either goroutine is sent to the
\* database whether or not the request's context is cancelled or past its
\* deadline, so the goroutine ends with the verdict of retry on the statement,
\* and it does end.
C31_WritesDetachedFromContext ==
    /\ [](\A r \in Reqs :
            /\ (req[r].pc = "done" /\ req[r].served = "db") => req[r].gpc \in {"hit", "done"}
            /\ (req[r].pc = "done" /\ req[r].served = "handler" /\ enableCache) =>
                    req[r].gpc \in {"wc_mem", "wc_db", "done"}
            /\ (req[r].gpc = "done" /\ enableDBCache(req[r].path)) =>
                    req[r].gerr \in RetryVerdicts)
    /\ \A r \in Reqs :
            (req[r].gpc \in {"hit", "wc_db"}) ~>
                (req[r].gpc = "done" /\ req[r].gerr \in RetryVerdicts)

\* C31's case: wrap has returned (its deferred cancel has run) and the hour of
\* the request has passed before the upsert was made, and the upsert wrote the
\* row.
C31_Witness ==
    \E r \in Reqs :
        /\ req[r].served = "handler"
        /\ req[r].gpc = "done"
        /\ req[r].gerr = "nil"
        /\ now > req[r].start
        /\ ctxDone(req[r], req[r].start)
        /\ Url(r) \in DOMAIN dbCache
        /\ dbCache[Url(r)].last_hit = At(req[r].start)
        /\ dbCache[Url(r)].data = req[r].data

\* C32: when cron revalidates a row (its UPDATE sets a non-NULL until), the
\* row's until is strictly later than the time of the revalidation (so that
\* the SELECT of a run that starts right afterwards does not return the row).
C32_RevalidatedUntilInFuture ==
    [][\A u \in DOMAIN dbCache :
            (cronPc = "loop" /\ u \in DOMAIN dbCache' /\ dbCache'[u].until # dbCache[u].until
                /\ ~dbCache'[u].until.null)
            => dbCache'[u].until.t > now]_vars

\* C33: a step that takes an entry out of the memory cache is a step of the
\* refresh loop's sweep (no request and no row changes in it); the entries a
\* sweep takes out are exactly those with until earlier than now minus one
\* hour, every other entry stays as it was, and no entry taken out would be
\* served by CheckCache to a request that starts now.
C33_OnlySweepRemoves ==
    [][LET gone == DOMAIN memCache \ DOMAIN memCache' IN
        /\ gone # {} => (req' = req /\ dbCache' = dbCache)
        /\ (memCache' # memCache /\ req' = req) =>
            /\ gone = {u \in DOMAIN memCache : memCache[u].until < now - sweepAge}
            /\ DOMAIN memCache' = DOMAIN memCache \ gone
            /\ \A u \in DOMAIN memCache' : memCache'[u] = memCache[u]
        /\ \A u \in gone : ~notExpired(memCache[u].until, now)]_vars

\* C33's case: two requests have written their entries, one at hour 0 and one
\* two days later; a sweep has removed the first entry and left the second.
C33_Witness ==
    \E r1, r2 \in Reqs :
        /\ req[r1].gpc = "done" /\ req[r1].served = "handler"
        /\ req[r2].gpc = "done" /\ req[r2].served = "handler"
        /\ enableMemCache(req[r1].path) \/ enableDBCache(req[r1].path)
        /\ req[r1].start + sweepAge + cacheTime < now
        /\ Url(r1) \notin DOMAIN memCache
        /\ Url(r2) \in DOMAIN memCache
        /\ memCache[Url(r2)].until = req[r2].start + cacheTime
        /\ req[r2].start = now

\* The finished requests for key u that were served an answer.
ServedFor(u) ==
    {r \in Reqs : Url(r) = u /\ req[r].pc = "done" /\ req[r].served \in {"mem", "db", "handler"}}

\* No goroutine of a request for key u is still to make its write.
WritesSettled(u) == \A r \in Reqs : (req[r].pc # "idle" /\ Url(r) = u) => req[r].gpc \in {"none", "done"}

\* C34: for a key of a DB-cacheable route, once the writes of its requests'
\* goroutines are all made, the row's last_hit is not older than the start of
\* the most recent served request for the key minus cacheTime.
C34_LastHitFreshness ==
    \A u \in DOMAIN dbCache :
        (enableDBCache(u) /\ WritesSettled(u)) =>
            \A r \in ServedFor(u) :
                /\ ~dbCache[u].last_hit.null
                /\ dbCache[u].last_hit.t >= req[r].start - cacheTime

\* ClearCache has made its DELETE and released the lock.
ClearPast == th["clear"].pc \notin {"idle", "cl_delete"}

\* C35 (as amended): when the DELETE of ClearCache succeeds, the memory cache
\* and the cache table are empty at that moment, and no request of the process
\* puts an entry into either afterwards, whatever requests are in flight (the
\* cache is disabled where ClearCache is served); when the DELETE fails, the
\* error is kept for the log and the rows stay.
C35_ClearSerialized ==
    /\ [][(th["clear"].pc = "cl_delete" /\ th'["clear"].pc # "cl_delete") =>
            /\ memCache' = <<>>
            /\ th'["clear"].err \in RetryVerdicts
            /\ dbCache' = IF th'["clear"].err = "nil" THEN <<>> ELSE dbCache]_vars
    /\ [][ClearPast => (memCache' = memCache /\ dbCache' = dbCache)]_vars
    /\ [](ClearPast => memCache = <<>>)
    /\ [](th["clear"].pc # "idle" => ~enableCache)

\* C35 as first stated: once ClearCache has completed, neither cache holds an
\* entry from before the clear (every entry of a process that serves ClearCache
\* is from before it).
C35_Original == th["clear"].pc = "done" => (memCache = <<>> /\ dbCache = <<>>)

\* C35's case: ClearCache has completed after a successful DELETE, a request
\* that was in the process has been answered by its handler, and both caches are
\* empty.
C35_Witness ==
    /\ th["clear"].pc = "done"
    /\ th["clear"].err = "nil"
    /\ \E t \in Workers : th[t].pc = "done" /\ th[t].resp.code = 200
    /\ memCache = <<>>
    /\ dbCache = <<>>

\* cron's turn for the row at the head of urls goes through: the handler, the
\* encoding and the UPDATE succeed and the row is revalidated.
CronTurnSucceeds ==
    /\ CronRecache
    /\ Head(cronUrls) \in DOMAIN dbCache => dbCache'[Head(cronUrls)].until = At(now)
    /\ cronUrls' = Tail(cronUrls)

\* C36: every row of the cache table is the row of a DB-cacheable route, and
\* whenever cron has selected the rows to recompute and comes to one of them,
\* its turn for that row can go through (it does when the queries succeed): the
\* row is recomputed and cron goes on to the next.
C36_CronRevalidatesEveryRow ==
    /\ \A u \in DOMAIN dbCache : enableDBCache(u)
    /\ cronPc = "loop" => ENABLED CronTurnSucceeds

\* C37: no request ends abnormally; and when the base sub-query of getHero has
\* failed, getHero returns with an error once its sub-queries have ended, as it
\* does when maps, modes, levels or lengths fails.
C37_BaseFailureReturned ==
    /\ grp.pc # "crashed"
    /\ \A b \in Branches :
        (grp.pc # "idle" /\ grp.kind = "GetHero" /\ Started(grp, b)
            /\ \E s \in SubsOf("GetHero") : grp.sub[b][s] = "failed") =>
                /\ grp.innerErr[b] # "nil"
                /\ grp.br[b] \in {"running", "failed"}

\* The request asks for skill bounds: mode and one of the indices are given.
SkillWanted ==
    agg.args["mode"] # NoStr /\ (agg.args["skill_low"] # NoStr \/ agg.args["skill_high"] # NoStr)

\* The checks before the skill block let the request through.
FiltersPass ==
    /\ requiredArgs("getWinrates", agg.args) = NoErr
    /\ buildQuery("getWinrates", agg.init, agg.args).err = NoErr

C39_LookupFailureIsMiss ==
    /\ [][\A r \in Reqs :
            (req[r].pc = "dblookup" /\ req'[r].pc # "dblookup" /\ req'[r].scanErr # "nil") =>
                /\ req'[r].scanErr \in {"ErrNoRows", "error"}
                /\ req'[r].pc = "handler"
                /\ req'[r].resp = NoResp
                /\ req'[r].gpc = "none"
                /\ memCache' = memCache
                /\ dbCache' = dbCache]_vars
    /\ [](\A r \in Reqs :
            req[r].scanErr \in {"ErrNoRows", "error"} =>
                /\ req[r].served \in {"none", "handler", "error"}
                /\ req[r].gpc \notin {"hit"}
                /\ req[r].pc = "done" => req[r].called)

\* C39's case: the SELECT of a request failed with an error of the database
\* and the request was answered by its handler; the table holds a row for the
\* key.
C39_Witness ==
    \E r \in Reqs :
        /\ req[r].scanErr = "error"
        /\ Url(r) \in DOMAIN dbCache
        /\ req[r].pc = "done"
        /\ req[r].served = "handler"
        /\ req[r].resp.code = 200

\* C40: when updateInit fails while it reads or decodes the config row, it
\* returns the error in that step: it has not taken the lock, and the lock, the
\* published snapshot and the contents of every snapshot stay as they were; a
\* reader that calls getInit afterwards gets the snapshot published before.
C40_FailedRefreshKeepsSnapshot ==
    /\ [][\A t \in {"loop", "clear"} :
            (th[t].pc = "ui_get" /\ th'[t].pc # "ui_get" /\ th'[t].err = "get config") =>
                /\ th'[t].pc \in {"panic", "done"}
                /\ mu' = mu
                /\ mu.w # t
                /\ muInit' = muInit
                /\ heap' = heap]_vars
    /\ [][\A w \in Workers :
            (th[w].pc = "gi_read" /\ th'[w].pc = "query") =>
                (th'[w].init = muInit /\ th'[w].seen = heap[muInit])]_vars

\* C40's case: the refresh of ClearCache has failed on the config row, the
\* snapshot built at start is still the published one, and a request has read
\* it with getInit.
C40_Witness ==
    /\ th["clear"].pc = "done"
    /\ th["clear"].err = "get config"
    /\ muInit = 1
    /\ Len(heap) = 1
    /\ \E w \in Workers : th[w].pc = "query" /\ th[w].init = 1 /\ th[w].seen = heap[1]

====
